---- MODULE Spec2Model ----
(***************************************************************************)
(* The deferred-write camera state of pywundercam: the CamState object     *)
(* (pywundercam/state.py) with its queue of pending hardware operations,   *)
(* and the PyWunderCam client (pywundercam/__init__.py) that prepares the  *)
(* state, and applies the queued operations to the camera through the      *)
(* control service.                                                        *)
(*                                                                         *)
(* Python dicts are functions from keys to values.  A value of the camera  *)
(* data structure is {} for None and {v} for the value v.  An OrderedDict  *)
(* is a sequence of <<key, value>> pairs with pairwise different keys.     *)
(***************************************************************************)
EXTENDS Integers, Sequences, FiniteSets, TLC

VARIABLES
    camera_data,    \* CamState._camera_data_structure of the client's state
    ops,            \* CamState._ops_to_apply of the client's state
    issued,         \* the requests that the last call on the constructed
                    \* client sent to the control service
    replies,        \* the JSON bodies that call received from it
    raised,         \* the exception the last call raised (NoError if none)
    last,           \* the last call: its name, attribute and argument
    pre_data,       \* camera_data as it was when the last call began
    pre_ops,        \* ops as it was when the last call began
    served,         \* the answers the file service gave to the last call
    bound_names,    \* the names bound in the module pywundercam.resourceio
    container,      \* the ResourceContainer the last scan built
    kept,           \* the ResourceContainer of an earlier scan
    difference      \* the ResourceContainer the last subtraction returned

vars == <<camera_data, ops, issued, replies, raised, last, pre_data, pre_ops,
          served, bound_names, container, kept, difference>>

\* What the calls on the client's state leave alone.
file_vars == <<served, bound_names, container, kept, difference>>

\* ---------------------------------------------------------------- bounds

\* Longest queue of pending operations a caller builds before committing.
MaxOps == 2

\* ------------------------------------------------------------- constants

\* The value None of a camera data field, and a field holding v.
None == {}
Some(v) == {v}

\* CamState._camera_data_attributes
camera_data_attributes ==
    {"CurPvSMStatus", "CurHpSMStatus", "CurWpSMStatus", "BatteryGird",
     "ShootMode", "SettingMode", "ChargeFlag", "HDMIonnectFlag",
     "SdcardplugFlag", "ErrorCode", "bSupport30p", "PhotoDelay",
     "PhotoNumber", "PhotoTime", "VideoFrameRate", "VideoFrameInterval",
     "LoopVideoTime", "SerialNumber", "ProductModel",
     "FirmwareSoftwareVersion", "ISO", "WhiteBalanceMode",
     "ExposureCompensation", "SceneMode", "capacity", "remainTime",
     "remainNum", "Mute", "AutoShutDown", "WifiPass", "WifiSSID"}

\* The names that the import statements of pywundercam/resourceio.py bind
\* in the module.  The module uses re as well, which is not among them.
resourceio_imports == {"os", "io", "copy", "requests", "PIL"}

\* No ResourceContainer: its constructor has not run, or has raised.
NoContainer == [resources |-> <<>>, built |-> FALSE]

\* No exception.
NoError == [type |-> "", msg |-> <<>>]

\* An exception of a class with the parts of its message.  A part is a
\* literal piece of text, or the text of a value formatted into the message.
Error(type, msg) == [type |-> type, msg |-> msg]

\* ------------------------------------------------------------ dictionaries

\* dict.update keeping the value of a key that d already has.
DictUpdateKeepFirst(d, e) ==
    [k \in (DOMAIN d) \cup (DOMAIN e) |-> IF k \in DOMAIN d THEN d[k] ELSE e[k]]

\* dict.update: the keys of e are added to d, or overwritten in d.
DictUpdate(d, e) ==
    [k \in (DOMAIN d) \cup (DOMAIN e) |-> IF k \in DOMAIN e THEN e[k] ELSE d[k]]

\* The position of a key of an OrderedDict.
IndexOf(od, k) == CHOOSE i \in 1..Len(od) : od[i][1] = k

HasKey(od, k) == \E i \in 1..Len(od) : od[i][1] = k

\* OrderedDict.__setitem__ moving a key that is already there to the end.
OrderedDictSetItemMoveToEnd(od, k, v) ==
    Append(SelectSeq(od, LAMBDA e : e[1] # k), <<k, v>>)

\* OrderedDict.__setitem__ putting every assignment at the end, as a list of
\* pairs would.
OrderedDictSetItemAppend(od, k, v) == Append(od, <<k, v>>)

\* OrderedDict.__setitem__: od[k] = v.  A key that is already there keeps its
\* position and gets the new value, a new key goes to the end.
OrderedDictSetItem(od, k, v) ==
    IF HasKey(od, k)
    THEN [od EXCEPT ![IndexOf(od, k)] = <<k, v>>]
    ELSE Append(od, <<k, v>>)

\* x in range(lo, hi + 1): the end of the range counted in.
InRangeInclusive(x, lo, hi) == lo <= x /\ x <= hi

\* x in range(lo, hi), for an integer x.
InRange(x, lo, hi) == lo <= x /\ x < hi

\* ------------------------------------------------------------------ CamState

\* CamState.__init__ holding the given data alone.
CamState_init_given(data) == [k \in DOMAIN data |-> Some(data[k])]

\* CamState.__init__: every known attribute at None, then the given data.
CamState_init(data) ==
    DictUpdate([k \in camera_data_attributes |-> None],
               [k \in DOMAIN data |-> Some(data[k])])

\* What a call leaves alone besides the queue: it sends nothing, and the
\* camera data is not touched.
Local(name, attr, value) ==
    /\ last' = [op |-> name, attr |-> attr, value |-> value]
    /\ issued' = <<>>
    /\ replies' = <<>>
    /\ pre_data' = camera_data
    /\ pre_ops' = ops
    /\ camera_data' = camera_data
    /\ UNCHANGED file_vars

\* CamState._prepare keeping the queue it finds.
CamState_prepare_keep ==
    ops' = ops

\* CamState._prepare: a fresh, empty queue.
CamState_prepare ==
    ops' = <<>>

\* The values a caller passes to the setter of an attribute whose valid
\* values are lo..hi: the ends of the range and their outer neighbours.
Arguments(lo, hi) == {lo - 1, lo, hi, hi + 1}

\* CamState.shoot_mode, setting_mode, iso, white_balance_mode and
\* exposure_compensation (getters): what the camera data holds.
shoot_mode == camera_data["ShootMode"]

setting_mode == camera_data["SettingMode"]

iso == camera_data["ISO"]

white_balance_mode == camera_data["WhiteBalanceMode"]

exposure_compensation == camera_data["ExposureCompensation"]

\* CamState.shoot_mode (setter) queueing whatever value it is given.
shoot_mode_setter_unchecked(new_shoot_mode) ==
    /\ ops' = OrderedDictSetItem(ops, 21, "ModeType" :> new_shoot_mode)
    /\ raised' = NoError
    /\ Local("set", "shoot_mode", new_shoot_mode)

\* CamState.shoot_mode (setter)
shoot_mode_setter(new_shoot_mode) ==
    /\ IF InRange(new_shoot_mode, 0, 7)
       THEN /\ ops' = OrderedDictSetItem(ops, 21, "ModeType" :> new_shoot_mode)
            /\ raised' = NoError
       ELSE /\ ops' = ops
            /\ raised' = Error("ValueError", <<"Can't set that", "shoot mode">>)
    /\ Local("set", "shoot_mode", new_shoot_mode)

\* CamState.setting_mode (setter)
setting_mode_setter(new_setting_mode) ==
    /\ IF new_setting_mode \in {0, 1}
       THEN /\ ops' = OrderedDictSetItem(ops, 29, "SettingMode" :> new_setting_mode)
            /\ raised' = NoError
       ELSE /\ ops' = ops
            /\ raised' = Error("ValueError", <<"Can't set that", "setting mode">>)
    /\ Local("set", "setting_mode", new_setting_mode)

\* CamState.iso (setter) writing the value into the camera data as well.
iso_setter_write_through(new_iso_value) ==
    /\ IF ~ InRange(new_iso_value, 0, 5)
       THEN /\ ops' = ops
            /\ camera_data' = camera_data
            /\ raised' = Error("ValueError",
                   <<"Invalid value", "{new_iso_value}", "for parameter", "iso">>)
       ELSE /\ ops' = OrderedDictSetItem(ops, 25, "ISO" :> new_iso_value)
            /\ camera_data' = [camera_data EXCEPT !["ISO"] = Some(new_iso_value)]
            /\ raised' = NoError
    /\ last' = [op |-> "set", attr |-> "iso", value |-> new_iso_value]
    /\ issued' = <<>>
    /\ replies' = <<>>
    /\ pre_data' = camera_data
    /\ pre_ops' = ops
    /\ UNCHANGED file_vars

\* CamState.iso (setter).  The message is a plain string, not a formatted
\* one: the braces and the name between them are its text.
iso_setter(new_iso_value) ==
    /\ IF ~ InRange(new_iso_value, 0, 5)
       THEN /\ ops' = ops
            /\ raised' = Error("ValueError",
                   <<"Invalid value", "{new_iso_value}", "for parameter", "iso">>)
       ELSE /\ ops' = OrderedDictSetItem(ops, 25, "ISO" :> new_iso_value)
            /\ raised' = NoError
    /\ Local("set", "iso", new_iso_value)

\* CamState.white_balance_mode (setter)
white_balance_mode_setter(new_white_balance_value) ==
    /\ IF ~ InRange(new_white_balance_value, 0, 5)
       THEN /\ ops' = ops
            /\ raised' = Error("ValueError",
                   <<"Invalid value", "{new_white_balance_value}",
                     "for parameter", "white_balance_mode">>)
       ELSE /\ ops' = OrderedDictSetItem(ops, 26,
                          "WhiteBalanceMode" :> new_white_balance_value)
            /\ raised' = NoError
    /\ Local("set", "white_balance_mode", new_white_balance_value)

\* CamState.exposure_compensation (setter)
exposure_compensation_setter(new_exposure_compensation_value) ==
    /\ IF ~ InRange(new_exposure_compensation_value, 0, 14)
       THEN /\ ops' = ops
            /\ raised' = Error("ValueError",
                   <<"Invalid value", "{new_exposure_compensation_value}",
                     "for parameter", "exposure_compensation">>)
       ELSE /\ ops' = OrderedDictSetItem(ops, 27,
                          "ExposureCompensation" :> new_exposure_compensation_value)
            /\ raised' = NoError
    /\ Local("set", "exposure_compensation", new_exposure_compensation_value)

\* --------------------------------------------------------- control service

\* What the control service can do with one request: answer 200 with a JSON
\* body, answer with another status, or not answer (no connection, time out).
Answer(exc, status_code, json) ==
    [exc |-> exc, status_code |-> status_code, json |-> json]

Failures ==
    {Answer("ConnectionError", 0, <<>>),
     Answer("Timeout", 0, <<>>),
     Answer("", 404, <<>>)}

\* The camera data key that a write command changes.
WrittenKey(command) ==
    CASE command = 21 -> "ShootMode"
      [] command = 29 -> "SettingMode"
      [] command = 25 -> "ISO"
      [] command = 26 -> "WhiteBalanceMode"
      [] command = 27 -> "ExposureCompensation"

\* The error codes the camera reports with the result of a write.
ErrorCodes == {0, 1}

\* The body the camera answers a write command with: the key it changed at
\* its new value, and an error code.
WriteReply(command, params, code) ==
    (WrittenKey(command) :> params[CHOOSE k \in DOMAIN params : TRUE])
        @@ ("ErrorCode" :> code)

\* The answers to the first n operations of a queue, all of them 200, the
\* camera reporting codes[i] with the i-th.
OkRun(operations, n, codes) ==
    [i \in 1..n |-> Answer("", 200,
        WriteReply(operations[i][1], operations[i][2], codes[i]))]

\* The query of a request without the parameters of the command.
req_params_cmd_only(command, params) == "cmd" :> command

\* The query of a request: {"cmd": command}, updated with params if any.
req_params(command, params) ==
    IF DOMAIN params # {}
    THEN DictUpdate("cmd" :> command, params)
    ELSE "cmd" :> command

control_uri == "http://192.168.100.1/fcgi_client.cgi"

\* PyWunderCam.__req_data, given the answer of the control service: the
\* request sent, and the exception raised or the JSON body returned.  For a
\* status other than 200 the message of the data transfer error reads
\* camera_data.message, which a response does not have.
req_data(command, params, answer) ==
    LET request == req_params(command, params)
        Result(exc, json) == [request |-> request, raised |-> exc, json |-> json]
    IN  IF answer.exc = "ConnectionError"
        THEN Result(Error("PyWunderCamConnectionError",
                          <<"Failed to connect to", control_uri>>), <<>>)
        ELSE IF answer.exc = "Timeout"
        THEN Result(Error("PyWunderCamTimeOutError", <<"Request timed out.">>), <<>>)
        ELSE IF answer.status_code # 200
        THEN Result(Error("AttributeError",
                          <<"'Response' object has no attribute", "message">>), <<>>)
        ELSE Result(NoError, answer.json)

\* The loop of the camera_state setter sending a request that failed once
\* more before it gives up.
RECURSIVE RequestLoopRetry(_, _, _, _)
RequestLoopRetry(operations, answers, i, acc) ==
    IF i > Len(operations)
    THEN acc
    ELSE LET r == req_data(operations[i][1], operations[i][2], answers[i])
         IN  IF r.raised # NoError
             THEN [acc EXCEPT !.issued = Append(Append(@, r.request), r.request),
                              !.raised = r.raised]
             ELSE RequestLoopRetry(operations, answers, i + 1,
                    [returned_state_data |->
                         DictUpdate(acc.returned_state_data, r.json),
                     issued |-> Append(acc.issued, r.request),
                     replies |-> Append(acc.replies, r.json),
                     raised |-> NoError])

\* The loop of the camera_state setter from operation i on: each operation
\* is requested in the order of the queue and its result merged into
\* returned_state_data; an exception of a request leaves the loop.
RECURSIVE RequestLoop(_, _, _, _)
RequestLoop(operations, answers, i, acc) ==
    IF i > Len(operations)
    THEN acc
    ELSE LET r == req_data(operations[i][1], operations[i][2], answers[i])
         IN  IF r.raised # NoError
             THEN [acc EXCEPT !.issued = Append(@, r.request),
                              !.raised = r.raised]
             ELSE RequestLoop(operations, answers, i + 1,
                    [returned_state_data |->
                         DictUpdate(acc.returned_state_data, r.json),
                     issued |-> Append(acc.issued, r.request),
                     replies |-> Append(acc.replies, r.json),
                     raised |-> NoError])

\* A dict of values read from the camera as camera data.
Data(json) == [k \in DOMAIN json |-> Some(json[k])]

\* PyWunderCam.camera_state (getter) returning the state as it is.
camera_state_getter_unprepared ==
    /\ ops' = ops
    /\ raised' = NoError
    /\ Local("prepare", "", 0)

\* PyWunderCam.camera_state (getter): prepares the state and returns it.
camera_state_getter ==
    /\ CamState_prepare
    /\ raised' = NoError
    /\ Local("prepare", "", 0)

\* The camera data after the loop of the camera_state setter: updated with
\* what the requests returned, unless a request raised and the update was
\* not reached.
Updated(done) ==
    IF done.raised = NoError
    THEN DictUpdate(camera_data, Data(done.returned_state_data))
    ELSE camera_data

\* The camera_state setter ends, with the camera data it leaves.
Applied(done, data) ==
    /\ camera_data' = data
    /\ issued' = done.issued
    /\ replies' = done.replies
    /\ raised' = done.raised
    /\ last' = [op |-> "commit", attr |-> "", value |-> 0]
    /\ pre_data' = camera_data
    /\ pre_ops' = ops
    /\ ops' = ops
    /\ UNCHANGED file_vars

\* Nothing requested, nothing returned.
NotStarted ==
    [returned_state_data |-> <<>>, issued |-> <<>>, replies |-> <<>>,
     raised |-> NoError]

\* The camera_state setter reading the status of the camera (command 3) when
\* it is given an empty queue.
camera_state_setter_reading ==
    \/ /\ Len(ops) = 0
       /\ Applied([NotStarted EXCEPT !.issued = <<"cmd" :> 3>>], camera_data)
    \/ /\ Len(ops) > 0
       /\ \E n \in 0..Len(ops) :
          \E codes \in [1..n -> ErrorCodes] :
          \E failure \in IF n < Len(ops) THEN {<<f>> : f \in Failures} ELSE {<<>>} :
          \E done \in {RequestLoop(ops, OkRun(ops, n, codes) \o failure, 1,
                                   NotStarted)} :
              Applied(done, Updated(done))

\* PyWunderCam.camera_state (setter), applied to the client's own state
\* object: with operations in the queue, requests them one by one in the
\* order of the queue and then updates the camera data with what the
\* requests returned; with an empty queue it does nothing.  The control
\* service answers one operation after the other, up to and including the
\* first that fails.
camera_state_setter ==
    IF Len(ops) > 0
    THEN \E n \in 0..Len(ops) :
         \E codes \in [1..n -> ErrorCodes] :
         \E failure \in IF n < Len(ops) THEN {<<f>> : f \in Failures} ELSE {<<>>} :
         \E done \in {RequestLoop(ops, OkRun(ops, n, codes) \o failure, 1,
                                  NotStarted)} :
             Applied(done, Updated(done))
    ELSE Applied(NotStarted, camera_data)

\* -------------------------------------------------------------- full read

\* Most read replies of one full read that report an error code other than 0.
MaxErrors == 1

\* The commands _full_read requests, in ascending order.
read_commands_sorted == <<3, 4, 5, 6, 7, 8, 9, 10, 11, 12, 13, 14, 15, 16, 17, 37>>

\* The commands _full_read requests, in the order it requests them.
read_commands == <<3, 37, 4, 5, 6, 7, 8, 9, 10, 11, 12, 13, 14, 15, 16, 17>>

\* The settings of a camera in automatic mode.
Settings ==
    [ShootMode |-> 0, SettingMode |-> 0, ISO |-> 0, WhiteBalanceMode |-> 0,
     ExposureCompensation |-> 0]

\* The body the camera answers the i-th read request of a full read with:
\* command 3 reports the state of the SD card, the read group g (if any)
\* reports the settings, and every reply has an error code, which is 1 for
\* the requests in errors.
ReadReply(i, g, errors) ==
    (IF read_commands[i] = 3 THEN "SdcardplugFlag" :> 2 ELSE <<>>)
        @@ (IF i = g THEN Settings ELSE <<>>)
        @@ ("ErrorCode" :> IF i \in errors THEN 1 ELSE 0)

\* The answers to the first n requests of a full read, all of them 200.
ReadRun(n, g, errors) ==
    [i \in 1..n |-> Answer("", 200, ReadReply(i, g, errors))]

\* No request of a full read sent yet.
NothingRead ==
    [full_scan_3 |-> <<>>, issued |-> <<>>, replies |-> <<>>, raised |-> NoError]

\* The requests of _full_read from the i-th on: each read group is requested
\* (without parameters) and its reply updates full_scan_3; an exception of a
\* request ends the chain.
RECURSIVE full_scan(_, _, _)
full_scan(answers, i, acc) ==
    IF i > Len(read_commands)
    THEN acc
    ELSE LET r == req_data(read_commands[i], <<>>, answers[i])
         IN  IF r.raised # NoError
             THEN [acc EXCEPT !.issued = Append(@, r.request),
                              !.raised = r.raised]
             ELSE full_scan(answers, i + 1,
                    [full_scan_3 |-> DictUpdate(acc.full_scan_3, r.json),
                     issued |-> Append(acc.issued, r.request),
                     replies |-> Append(acc.replies, r.json),
                     raised |-> NoError])

\* self._current_camera_state = None: the client has no camera data.
NoState == <<>>

\* The outcome of a call that sends requests to the control service: the
\* state it returns (if any), what it sent and received, what it raised.
Outcome(cc, scan, exc) ==
    [cc |-> cc, issued |-> scan.issued, replies |-> scan.replies, raised |-> exc]

\* _full_read returning the state of the replies it got when a request fails.
full_read_partial(answers) ==
    LET scan == full_scan(answers, 1, NothingRead)
    IN  Outcome(CamState_init(scan.full_scan_3), scan, NoError)

\* PyWunderCam._full_read: a new CamState of the merged replies; any
\* exception of a request is replaced by Exception("Something Went wrong").
full_read(answers) ==
    LET scan == full_scan(answers, 1, NothingRead)
    IN  IF scan.raised = NoError
        THEN Outcome(CamState_init(scan.full_scan_3), scan, NoError)
        ELSE Outcome(NoState, scan, Error("Exception", <<"Something Went wrong">>))

\* ------------------------------------------------------------ construction

camera_ip == "192.168.100.1"

\* The bodies the control service can answer the first request (command 3)
\* of the construction with: an empty one, one without the state of the SD
\* card, and one for each state of the SD card.
FirstReads ==
    {<<>>, [ErrorCode |-> 0]}
        \cup {[SdcardplugFlag |-> f, ErrorCode |-> 0] : f \in {0, 1, 2}}

\* What the file service can do with the request of the path /DCIM/img/:
\* not answer, or answer that the path does not exist, or that it does.
FileChecks ==
    {Answer("ConnectionError", 0, <<>>), Answer("Timeout", 0, <<>>),
     Answer("", 404, <<>>), Answer("", 200, <<>>)}

\* The sets of at most k of the first n read requests.
RECURSIVE AtMost(_, _)
AtMost(k, n) ==
    IF k = 0
    THEN {{}}
    ELSE AtMost(k - 1, n) \cup {e \cup {i} : e \in AtMost(k - 1, n), i \in 1..n}

\* The sets of read requests whose reply reports an error.
ErrorSets(n) == AtMost(MaxErrors, n)

\* The answers the control service can give to a full read of which the
\* first n requests succeed: the next one, if there is one, fails.
FullReadAnswers(n) ==
    {ReadRun(n, g, errors) \o failure :
        g \in 0..n, errors \in ErrorSets(n),
        failure \in IF n < Len(read_commands)
                    THEN {<<f>> : f \in Failures} ELSE {<<>>}}

\* PyWunderCam.__init__ ends: the state it installed (if any), what it sent
\* to and got from the control service, what the file service answered and
\* what it raised.
Constructed(done, files) ==
    /\ camera_data' = done.cc
    /\ issued' = done.issued
    /\ replies' = done.replies
    /\ raised' = done.raised
    /\ served' = files
    /\ last' = [op |-> "init", attr |-> "", value |-> 0]
    /\ ops' = <<>>
    /\ pre_data' = camera_data
    /\ pre_ops' = ops
    /\ UNCHANGED <<bound_names, container, kept, difference>>

\* The first request of the construction, with or without what follows it.
Checked(sd_card_flag, exc) ==
    [cc |-> NoState, issued |-> <<sd_card_flag.request>>,
     replies |-> IF sd_card_flag.raised = NoError
                 THEN <<sd_card_flag.json>> ELSE <<>>,
     raised |-> exc]

\* is_camera_web_server_live taking any answer of the file service for a
\* sign of life.
is_camera_web_server_live_answered(file) == file.status_code \in {200, 404}

\* is_camera_web_server_live: the answer of the file service to the request
\* of the path /DCIM/img/ has the status 404.
is_camera_web_server_live(file) == file.status_code = 404

\* PyWunderCam.__init__: the control service must answer command 3 with a
\* body that is not empty, the file service must answer 404 for a path that
\* does not exist, and the SD card must be in state 2; then the state of
\* the client is the result of a full read.  A connection error of the
\* file service becomes a PyWunderCamConnectionError, every other exception
\* is raised as it is.
PyWunderCam_init ==
    /\ last.op = "new"
    /\ \E first \in Failures \cup {Answer("", 200, b) : b \in FirstReads} :
       \E sd_card_flag \in {req_data(3, <<>>, first)} :
          IF sd_card_flag.raised # NoError
          THEN Constructed(Checked(sd_card_flag, sd_card_flag.raised), <<>>)
          ELSE \E file \in FileChecks :
               IF file.exc = "ConnectionError"
               THEN Constructed(Checked(sd_card_flag,
                        Error("PyWunderCamConnectionError",
                              <<"Could not connect to", camera_ip>>)), <<file>>)
               ELSE IF file.exc = "Timeout"
               THEN Constructed(Checked(sd_card_flag,
                        Error("Timeout", <<>>)), <<file>>)
               ELSE IF ~ (/\ DOMAIN sd_card_flag.json # {}
                          /\ is_camera_web_server_live(file))
               THEN Constructed(Checked(sd_card_flag,
                        Error("PyWunderCamCameraNotFoundError",
                              <<"Camera Not Found at", camera_ip>>)), <<file>>)
               ELSE IF "SdcardplugFlag" \notin DOMAIN sd_card_flag.json
               THEN Constructed(Checked(sd_card_flag,
                        Error("KeyError", <<"SdcardplugFlag">>)), <<file>>)
               ELSE IF sd_card_flag.json["SdcardplugFlag"] # 2
               THEN Constructed(Checked(sd_card_flag,
                        Error("PyWunderCamSDCardUnusable",
                              <<"The SD card is not in a usable state",
                                ToString(sd_card_flag.json["SdcardplugFlag"])>>)),
                        <<file>>)
               ELSE \E n \in 0..Len(read_commands) :
                    \E answers \in FullReadAnswers(n) :
                    \E read \in {full_read(answers)} :
                        Constructed(
                            [read EXCEPT
                                !.issued = <<sd_card_flag.request>> \o @,
                                !.replies = <<sd_card_flag.json>> \o @],
                            <<file>>)

\* ---------------------------------------------------------------- file names
\* A text is a sequence of tokens: a digit of a file name is a token of its
\* own, the other tokens are pieces of text.  Joining texts is \o.

Digits == {"0", "1", "2", "3", "4", "5", "6", "7", "8", "9"}

DigitValue(c) ==
    CASE c = "0" -> 0 [] c = "1" -> 1 [] c = "2" -> 2 [] c = "3" -> 3
      [] c = "4" -> 4 [] c = "5" -> 5 [] c = "6" -> 6 [] c = "7" -> 7
      [] c = "8" -> 8 [] c = "9" -> 9

\* int(text) of a text of digits: leading zeros do not count.
RECURSIVE IntOf(_)
IntOf(text) ==
    IF text = <<>>
    THEN 0
    ELSE 10 * IntOf(SubSeq(text, 1, Len(text) - 1)) + DigitValue(text[Len(text)])

\* A piece of a file name pattern: a literal text, or a named group of
\* exactly `width` digits, (?P<name>[0-9]...[0-9]).
Literal(text) == [group |-> "", width |-> 0, text |-> text]

Group(name, width) == [group |-> name, width |-> width, text |-> ""]

\* A named group of one or more digits, (?P<name>[0-9]+), before a literal
\* piece that begins with no digit: it matches the digits up to there.
Number(name) == [group |-> name, width |-> 0, text |-> ""]

\* The number of digits of a text from token j on.
DigitRun(text, j) ==
    CHOOSE n \in 0..(Len(text) - j + 1) :
        /\ \A k \in j..(j + n - 1) : text[k] \in Digits
        /\ j + n > Len(text) \/ text[j + n] \notin Digits

\* The groups that the patterns of image and video file names share:
\* ..._(year)(month)(day)_(hour)(minute)(second)_(frame)...
Stamped(head, tail) ==
    <<Literal(head), Group("year", 4), Group("month", 2), Group("day", 2),
      Literal("_"), Group("hour", 2), Group("minute", 2), Group("second", 2),
      Literal("_"), Group("frame", 3), Literal(tail)>>

IMG_FILE_RE == Stamped("Img_", ".jpg")

VID_FILE_RE == Stamped("Vid_", ".mp4")

IMG_GROUP_BY == <<"year", "month", "day", "hour", "minute", "second">>

VID_GROUP_BY == IMG_GROUP_BY

IMG_ORDER_BY == "frame"

\* pattern.match(text) from piece i of the pattern and token j of the text
\* on, with the groups matched so far: the groupdict of the match, or None.
\* A match starts at the first token and may end before the last.
RECURSIVE Match(_, _, _, _, _)
Match(pattern, text, i, j, groupdict) ==
    IF i > Len(pattern)
    THEN Some(groupdict)
    ELSE IF pattern[i].group = ""
    THEN IF j <= Len(text) /\ text[j] = pattern[i].text
         THEN Match(pattern, text, i + 1, j + 1, groupdict)
         ELSE None
    ELSE IF pattern[i].width = 0
    THEN IF j <= Len(text) /\ DigitRun(text, j) > 0
         THEN Match(pattern, text, i + 1, j + DigitRun(text, j),
                    groupdict @@ (pattern[i].group :>
                                    SubSeq(text, j, j + DigitRun(text, j) - 1)))
         ELSE None
    ELSE IF /\ j + pattern[i].width - 1 <= Len(text)
            /\ \A k \in j..(j + pattern[i].width - 1) : text[k] \in Digits
         THEN Match(pattern, text, i + 1, j + pattern[i].width,
                    groupdict @@ (pattern[i].group :>
                                    SubSeq(text, j, j + pattern[i].width - 1)))
         ELSE None

\* ------------------------------------------------------------------ resources

\* The value of an argument that is not None.
Value(argument) == CHOOSE v \in argument : TRUE

\* SingleResource.__init__.  The hash value is the hash of the remote file
\* name, modelled by the name itself.
SingleResource(full_remote_filename, metadata) ==
    [type |-> "SingleResource",
     full_remote_filename |-> full_remote_filename,
     metadata |-> metadata,
     hash_value |-> full_remote_filename]

\* "".join(map(lambda x:x[0], file_list))
RECURSIVE Joined(_)
Joined(file_list) ==
    IF file_list = <<>>
    THEN <<>>
    ELSE Head(file_list).name \o Joined(Tail(file_list))

\* SequenceResource.__init__: the members in the order of file_list.  The
\* hash value is the hash of the joined file names.
SequenceResource(file_io_uri, file_list) ==
    [type |-> "SequenceResource",
     hash_value |-> Joined(file_list),
     seq |-> [i \in 1..Len(file_list) |->
                 SingleResource(file_io_uri \o file_list[i].name,
                                file_list[i].metadata)]]

\* An entry of all_files: [x, None, None], x the name of the file; then
\* with the metadata of the name and the key of its group.
File(name, metadata, key) == [name |-> name, metadata |-> metadata, key |-> key]

\* concatenated_attrs: str() of the named groups, one after the other.
RECURSIVE Concatenated(_, _)
Concatenated(groupdict, group_by) ==
    IF group_by = <<>>
    THEN <<>>
    ELSE groupdict[Head(group_by)] \o Concatenated(groupdict, Tail(group_by))

\* An entry of all_files after the loop over the names: a name that
\* file_re matches has its groupdict as metadata and, with group_by, the
\* concatenated groups as key; any other entry stays as it was.
Described(a_file, file_re, group_by) ==
    IF file_re = None
    THEN a_file
    ELSE LET file_metadata == Match(Value(file_re), a_file.name, 1, 1, <<>>)
         IN  IF file_metadata = None
             THEN a_file
             ELSE File(a_file.name, file_metadata,
                       IF group_by = None
                       THEN None
                       ELSE Some(Concatenated(Value(file_metadata),
                                              Value(group_by))))

\* grouped_files with group_by keeping every entry in a list of its own.
GroupedAlone(all_files, i, grouped_files) ==
    [k \in 1..Len(all_files) |-> <<all_files[k].key, <<all_files[k]>>>>]

\* grouped_files with group_by putting a key seen for the first time before
\* the keys seen earlier.
RECURSIVE GroupedFront(_, _, _)
GroupedFront(all_files, i, grouped_files) ==
    IF i > Len(all_files)
    THEN grouped_files
    ELSE GroupedFront(all_files, i + 1,
            IF HasKey(grouped_files, all_files[i].key)
            THEN [grouped_files EXCEPT
                     ![IndexOf(grouped_files, all_files[i].key)][2] =
                         Append(@, all_files[i])]
            ELSE <<<<all_files[i].key, <<all_files[i]>>>>>> \o grouped_files)

\* grouped_files with group_by, from the i-th entry on: an entry joins the
\* list of its key, a key seen for the first time starts a list at the end.
RECURSIVE Grouped(_, _, _)
Grouped(all_files, i, grouped_files) ==
    IF i > Len(all_files)
    THEN grouped_files
    ELSE Grouped(all_files, i + 1,
            IF HasKey(grouped_files, all_files[i].key)
            THEN [grouped_files EXCEPT
                     ![IndexOf(grouped_files, all_files[i].key)][2] =
                         Append(@, all_files[i])]
            ELSE Append(grouped_files, <<all_files[i].key, <<all_files[i]>>>>))

\* grouped_files without group_by: every entry under its own index.
Enumerated(all_files) ==
    [i \in 1..Len(all_files) |-> <<i - 1, <<all_files[i]>>>>]

\* sorted(a_file, key=...) leaving the list as it is.
SortedNot(a_file, order_by) == a_file

\* sorted(a_file, key=lambda x:int(x[1][order_by])): ascending keys, entries
\* with equal keys in the order they had.
Sorted(a_file, order_by) ==
    LET key(i) == IntOf(Value(a_file[i].metadata)[order_by])
        Before(i) == {j \in 1..Len(a_file) :
                         key(j) < key(i) \/ (key(j) = key(i) /\ j < i)}
    IN  [p \in 1..Len(a_file) |->
            a_file[CHOOSE i \in 1..Len(a_file) : Cardinality(Before(i)) = p - 1]]

\* The resource of one group of files, a SequenceResource whatever the
\* number of files of the group.
ResourceSequence(file_io_uri, a_file, order_by) ==
    SequenceResource(file_io_uri, a_file)

\* The resource of one group of files, the hash value of a sorted sequence
\* taken from the file names as they were grouped.
ResourceHashedAsGrouped(file_io_uri, a_file, order_by) ==
    IF Len(a_file) > 1
    THEN IF order_by # None
         THEN [SequenceResource(file_io_uri, Sorted(a_file, Value(order_by)))
                   EXCEPT !.hash_value = Joined(a_file)]
         ELSE SequenceResource(file_io_uri, a_file)
    ELSE SingleResource(file_io_uri \o a_file[1].name, a_file[1].metadata)

\* The resource of one group of files: a SequenceResource of a group of
\* more than one file, sorted if there is an order_by, and a SingleResource
\* of the only file of a group.
Resource(file_io_uri, a_file, order_by) ==
    IF Len(a_file) > 1
    THEN IF order_by # None
         THEN SequenceResource(file_io_uri, Sorted(a_file, Value(order_by)))
         ELSE SequenceResource(file_io_uri, a_file)
    ELSE SingleResource(file_io_uri \o a_file[1].name, a_file[1].metadata)

\* The sort key of a group cannot be computed: a file of the group has no
\* metadata, and x[1][order_by] subscripts None.
Unsortable(a_file, order_by) ==
    /\ Len(a_file) > 1
    /\ order_by # None
    /\ \E i \in 1..Len(a_file) : a_file[i].metadata = None

\* ResourceContainer.__init__ ends: the container it built (if any), what
\* the file service answered and what it raised.
Scanned(built, files, exc, file_re, group_by, order_by) ==
    /\ container' = built
    /\ served' = files
    /\ raised' = exc
    /\ last' = [op |-> "scan", attr |-> "", value |-> 0, file_re |-> file_re,
                group_by |-> group_by, order_by |-> order_by]
    /\ UNCHANGED <<camera_data, ops, issued, replies, pre_data, pre_ops,
                   bound_names, kept, difference>>

\* The hrefs of a listing without the parent directory, if that is its
\* first entry.
RestAfterParent(hrefs) ==
    IF Len(hrefs) > 0 /\ hrefs[1] = <<"../">>
    THEN [i \in 1..(Len(hrefs) - 1) |-> hrefs[i + 1]]
    ELSE hrefs

\* The slice [1:] of the hrefs of a listing: all but the first.
Rest(hrefs) == [i \in 1..(Len(hrefs) - 1) |-> hrefs[i + 1]]

\* ResourceContainer.__init__.  The body of the answer of the file service
\* is the list of the hrefs of the anchors in its text, in the order of the
\* text, which is what anchor_re.findall returns.  The names in group_by
\* and order_by are groups of file_re.  When the request raises, whatever
\* it raises, matching it against the handler evaluates
\* requests.excepetions, which raises AttributeError.
ResourceContainer_new(file_io_uri, file_re, group_by, order_by, answer) ==
    LET Ends(built, files, exc) ==
            [container |-> built, served |-> files, raised |-> exc]
    IN
    IF "re" \notin bound_names
    THEN Ends(NoContainer, <<>>,
              Error("NameError", <<"name", "re", "is not defined">>))
    ELSE IF answer.exc \in {"Timeout", "ConnectionError"}
    THEN Ends(NoContainer, <<answer>>,
              Error("AttributeError",
                    <<"module 'requests' has no attribute", "excepetions">>))
    ELSE LET all_files ==
                 [i \in 1..Len(Rest(answer.json)) |->
                     Described(File(Rest(answer.json)[i], None, None),
                               file_re, group_by)]
             grouped_files ==
                 IF group_by # None
                 THEN Grouped(all_files, 1, <<>>)
                 ELSE Enumerated(all_files)
         IN  IF \E g \in 1..Len(grouped_files) :
                    Unsortable(grouped_files[g][2], order_by)
             THEN Ends(NoContainer, <<answer>>,
                       Error("TypeError",
                             <<"'NoneType' object is not subscriptable">>))
             ELSE Ends([file_re |-> file_re, group_by |-> group_by,
                        order_by |-> order_by,
                        resources |->
                            [g \in 1..Len(grouped_files) |->
                                Resource(file_io_uri, grouped_files[g][2],
                                         order_by)],
                        built |-> TRUE],
                       <<answer>>, NoError)

\* A program builds a ResourceContainer.
ResourceContainer_init(file_io_uri, file_re, group_by, order_by, answer) ==
    \E done \in {ResourceContainer_new(file_io_uri, file_re, group_by,
                                       order_by, answer)} :
        Scanned(done.container, done.served, done.raised,
                file_re, group_by, order_by)

\* ------------------------------------------------------------- subtraction

\* hash(a_resource): AbstractResource.__hash__ returns the hash value the
\* resource was given when it was built.
Hash(a_resource) == a_resource.hash_value

\* asset_idx after a loop that stops before the last of other._resources.
RECURSIVE IndexedButLast(_, _, _)
IndexedButLast(resources, i, asset_idx) ==
    IF i >= Len(resources)
    THEN asset_idx
    ELSE IndexedButLast(resources, i + 1,
                        DictUpdate(asset_idx,
                                   Hash(resources[i]) :> resources[i]))

\* asset_idx after the loop over other._resources, from the i-th on.
RECURSIVE Indexed(_, _, _)
Indexed(resources, i, asset_idx) ==
    IF i > Len(resources)
    THEN asset_idx
    ELSE Indexed(resources, i + 1,
                 DictUpdate(asset_idx, Hash(resources[i]) :> resources[i]))

\* diff_resources after a loop over self._resources that keeps the
\* resources whose hash is a key of asset_idx.
RECURSIVE DifferentKnown(_, _, _, _)
DifferentKnown(resources, asset_idx, i, diff_resources) ==
    IF i > Len(resources)
    THEN diff_resources
    ELSE DifferentKnown(resources, asset_idx, i + 1,
            IF Hash(resources[i]) \in DOMAIN asset_idx
            THEN Append(diff_resources, resources[i])
            ELSE diff_resources)

\* diff_resources after the loop over self._resources, from the i-th on:
\* a resource whose hash is no key of asset_idx is appended.
RECURSIVE Different(_, _, _, _)
Different(resources, asset_idx, i, diff_resources) ==
    IF i > Len(resources)
    THEN diff_resources
    ELSE Different(resources, asset_idx, i + 1,
            IF Hash(resources[i]) \in DOMAIN asset_idx
            THEN diff_resources
            ELSE Append(diff_resources, resources[i]))

\* ResourceContainer.__sub__ assigning diff_resources to self._resources
\* and returning self.
ResourceContainer_sub_in_place(self, other) ==
    LET asset_idx == Indexed(other.resources, 1, <<>>)
        diff_resources == Different(self.resources, asset_idx, 1, <<>>)
    IN  [self |-> [self EXCEPT !.resources = diff_resources],
         other |-> other,
         new_resource_container |-> [self EXCEPT !.resources = diff_resources],
         copied |-> FALSE]

\* ResourceContainer.__sub__: the two operands as it leaves them and the
\* container it returns, a shallow copy of self (copied) with
\* diff_resources as its resources.
ResourceContainer_sub(self, other) ==
    LET asset_idx == Indexed(other.resources, 1, <<>>)
        diff_resources == Different(self.resources, asset_idx, 1, <<>>)
    IN  [self |-> self,
         other |-> other,
         new_resource_container |-> [self EXCEPT !.resources = diff_resources],
         copied |-> TRUE]

\* The container a program holds under a name.
Bound(name) == IF name = "container" THEN container ELSE kept

\* A program subtracts the container it holds under the name other from
\* the one it holds under the name self.  An operand is the same object
\* after the call, with the resources __sub__ left it.
Subtraction(self, other) ==
    /\ Bound(self).built
    /\ Bound(other).built
    /\ \E done \in {ResourceContainer_sub(Bound(self), Bound(other))} :
          /\ difference' = done.new_resource_container
          /\ container' = IF self = "container" THEN done.self
                          ELSE IF other = "container" THEN done.other
                          ELSE container
          /\ kept' = IF self = "kept" THEN done.self
                     ELSE IF other = "kept" THEN done.other
                     ELSE kept
          /\ last' = [op |-> "sub", attr |-> "", value |-> 0,
                      self |-> self, other |-> other,
                      operands |-> <<Bound(self), Bound(other)>>,
                      copied |-> done.copied]
    /\ raised' = NoError
    /\ served' = <<>>
    /\ UNCHANGED <<camera_data, ops, issued, replies, pre_data, pre_ops,
                   bound_names>>

\* ResourceContainer.__len__ of the container of the last scan.
ResourceContainer_len ==
    /\ container.built
    /\ last' = [op |-> "len", attr |-> "",
                value |-> Len(container.resources)]
    /\ raised' = NoError
    /\ served' = <<>>
    /\ UNCHANGED <<camera_data, ops, issued, replies, pre_data, pre_ops,
                   bound_names, container, kept, difference>>

\* ResourceContainer.__getitem__ of the container of the last scan, item
\* counted from 0: the resource at item, or the IndexError of the tuple.
ResourceContainer_getitem(item) ==
    /\ container.built
    /\ last' = [op |-> "getitem", attr |-> "", value |-> item,
                returned |-> IF item < Len(container.resources)
                             THEN Some(container.resources[item + 1])
                             ELSE None]
    /\ raised' = IF item < Len(container.resources)
                 THEN NoError
                 ELSE Error("IndexError", <<"tuple index out of range">>)
    /\ served' = <<>>
    /\ UNCHANGED <<camera_data, ops, issued, replies, pre_data, pre_ops,
                   bound_names, container, kept, difference>>

\* before_shot = ...: a program keeps the container of its scan under a
\* second name before it scans again.
Keep ==
    /\ last.op = "scan"
    /\ container.built
    /\ kept = NoContainer
    /\ kept' = container
    /\ last' = [op |-> "keep", attr |-> "", value |-> 0]
    /\ UNCHANGED <<camera_data, ops, issued, replies, raised, pre_data,
                   pre_ops, served, bound_names, container, difference>>

\* ------------------------------------------------------------ specification

\* What the full read of the construction returns: the settings of a camera
\* in automatic mode, no error, and a usable SD card.
InitialReads ==
    {[ShootMode |-> 0, SettingMode |-> 0, ISO |-> 0, WhiteBalanceMode |-> 0,
      ExposureCompensation |-> 0, ErrorCode |-> 0, SdcardplugFlag |-> 2]}

\* The client after PyWunderCam.__init__: the state of a full read.
Init ==
    /\ camera_data \in {CamState_init(data) : data \in InitialReads}
    /\ ops = <<>>
    /\ issued = <<>>
    /\ replies = <<>>
    /\ raised = NoError
    /\ last = [op |-> "init", attr |-> "", value |-> 0]
    /\ pre_data = camera_data
    /\ pre_ops = <<>>
    /\ served = <<>>
    /\ bound_names = resourceio_imports
    /\ container = NoContainer
    /\ kept = NoContainer
    /\ difference = NoContainer

\* A caller of the client queues a new command only while fewer than MaxOps
\* are queued.
Room(command) == HasKey(ops, command) \/ Len(ops) < MaxOps

\* The values a caller of the client passes to the setter of an attribute
\* whose valid values are lo..hi: the last one, which is not the value of
\* automatic mode that the camera starts with.
Presets(lo, hi) == {hi}

\* The client: its state is prepared, changed through the setters and
\* applied to the camera.
Next ==
    \/ camera_state_getter
    \/ \E v \in Presets(0, 6) : Room(21) /\ shoot_mode_setter(v)
    \/ \E v \in Presets(0, 1) : Room(29) /\ setting_mode_setter(v)
    \/ \E v \in Presets(0, 4) : Room(25) /\ iso_setter(v)
    \/ \E v \in Presets(0, 4) : Room(26) /\ white_balance_mode_setter(v)
    \/ \E v \in Presets(0, 13) : Room(27) /\ exposure_compensation_setter(v)
    \/ camera_state_setter

Spec == Init /\ [][Next]_vars

\* The state object alone: prepared and changed through the setters with
\* values inside and outside the ranges, never applied.
StateNext ==
    \/ camera_state_getter
    \/ \E v \in Arguments(0, 6) : shoot_mode_setter(v)
    \/ \E v \in Arguments(0, 1) : setting_mode_setter(v)
    \/ \E v \in Arguments(0, 4) : iso_setter(v)
    \/ \E v \in Arguments(0, 4) : white_balance_mode_setter(v)
    \/ \E v \in Arguments(0, 13) : exposure_compensation_setter(v)

StateSpec == Init /\ [][StateNext]_vars

\* The values a caller of the client tries on the setter of an attribute
\* whose valid values are lo..hi: the first one, which is the value of
\* automatic mode, and the first one past the last.
Tried(lo, hi) == {lo, hi + 1}

\* The client used carelessly: its state is prepared, changed through the
\* setters with valid and invalid values, and applied to the camera.
PendingNext ==
    \/ camera_state_getter
    \/ \E v \in Tried(0, 6) : Room(21) /\ shoot_mode_setter(v)
    \/ \E v \in Tried(0, 1) : Room(29) /\ setting_mode_setter(v)
    \/ \E v \in Tried(0, 4) : Room(25) /\ iso_setter(v)
    \/ \E v \in Tried(0, 4) : Room(26) /\ white_balance_mode_setter(v)
    \/ \E v \in Tried(0, 13) : Room(27) /\ exposure_compensation_setter(v)
    \/ camera_state_setter

PendingSpec == Init /\ [][PendingNext]_vars

\* The read accessors of CamState and the key of the camera data each of
\* them returns the value of.
accessor_keys ==
    "cur_pv_sm_status" :> "CurPvSMStatus" @@
    "cur_hp_sm_status" :> "CurHpSMStatus" @@
    "cur_wp_sm_status" :> "CurWpSMStatus" @@
    "battery_grid" :> "BatteryGird" @@
    "shoot_mode" :> "ShootMode" @@
    "setting_mode" :> "SettingMode" @@
    "charge_flag" :> "ChargeFlag" @@
    "hdmi_connect_flag" :> "HDMIConnectFlag" @@
    "sd_card_plug_flag" :> "SdcardplugFlag" @@
    "error_code" :> "ErrorCode" @@
    "b_support_30p" :> "bSupport30p" @@
    "photo_delay" :> "PhotoDelay" @@
    "photo_number" :> "PhotoNumber" @@
    "photo_time" :> "PhotoTime" @@
    "video_frame_rate" :> "VideoFrameRate" @@
    "video_frame_interval" :> "VideoFrameInterval" @@
    "loop_video_time" :> "LoopVideoTime" @@
    "serial_number" :> "SerialNumber" @@
    "product_model" :> "ProductModel" @@
    "firmware_software_version" :> "FirmwareSoftwareVersion" @@
    "iso" :> "ISO" @@
    "white_balance_mode" :> "WhiteBalanceMode" @@
    "exposure_compensation" :> "ExposureCompensation" @@
    "scene_mode" :> "SceneMode" @@
    "capacity" :> "capacity" @@
    "mute" :> "Mute" @@
    "auto_shutdown" :> "AutoShutDown" @@
    "wifi_pass" :> "WifiPass" @@
    "wifi_ssid" :> "WifiSSID" @@
    "remain_time" :> "remainTime" @@
    "remain_num" :> "remainNum"

\* A read accessor of CamState: the value at its key, or the KeyError of a
\* dict without the key.
CamState_get(accessor) ==
    /\ IF accessor_keys[accessor] \in DOMAIN camera_data
       THEN /\ raised' = NoError
            /\ last' = [op |-> "get", attr |-> accessor, value |-> 0,
                        returned |-> camera_data[accessor_keys[accessor]]]
       ELSE /\ raised' = Error("KeyError", <<accessor_keys[accessor]>>)
            /\ last' = [op |-> "get", attr |-> accessor, value |-> 0,
                        returned |-> None]
    /\ issued' = <<>>
    /\ replies' = <<>>
    /\ pre_data' = camera_data
    /\ pre_ops' = ops
    /\ UNCHANGED <<camera_data, ops>>
    /\ UNCHANGED file_vars

\* Keys of the camera data that a camera reports.
ReportedKeys == {"ShootMode", "ISO", "HDMIonnectFlag", "WifiSSID"}

\* A state object created empty, or with data that reports known keys.
ReadInit ==
    /\ camera_data \in {CamState_init([k \in keys |-> 1]) :
                            keys \in SUBSET ReportedKeys}
    /\ ops = <<>>
    /\ issued = <<>>
    /\ replies = <<>>
    /\ raised = NoError
    /\ last = [op |-> "init", attr |-> "", value |-> 0]
    /\ pre_data = camera_data
    /\ pre_ops = <<>>
    /\ served = <<>>
    /\ bound_names = resourceio_imports
    /\ container = NoContainer
    /\ kept = NoContainer
    /\ difference = NoContainer

\* A program reads an attribute of the state.
ReadNext == \E accessor \in DOMAIN accessor_keys : CamState_get(accessor)

ReadSpec == ReadInit /\ [][ReadNext]_vars

\* No client yet: PyWunderCam.__init__ has not run.
NewInit ==
    /\ camera_data = NoState
    /\ ops = <<>>
    /\ issued = <<>>
    /\ replies = <<>>
    /\ raised = NoError
    /\ last = [op |-> "new", attr |-> "", value |-> 0]
    /\ pre_data = NoState
    /\ pre_ops = <<>>
    /\ served = <<>>
    /\ bound_names = resourceio_imports
    /\ container = NoContainer
    /\ kept = NoContainer
    /\ difference = NoContainer

\* Longest queue of pending operations a caller of a client whose
\* construction is part of the run builds before committing.
MaxNewOps == 1

NewRoom(command) == HasKey(ops, command) \/ Len(ops) < MaxNewOps

\* There is a client only once the construction has returned one.
HasClient == last.op # "new" /\ camera_data # NoState

\* The client from its construction on.
NewNext ==
    \/ PyWunderCam_init
    \/ HasClient /\ camera_state_getter
    \/ \E v \in Presets(0, 6) : HasClient /\ NewRoom(21) /\ shoot_mode_setter(v)
    \/ \E v \in Presets(0, 1) : HasClient /\ NewRoom(29) /\ setting_mode_setter(v)
    \/ \E v \in Presets(0, 4) : HasClient /\ NewRoom(25) /\ iso_setter(v)
    \/ \E v \in Presets(0, 4) : HasClient /\ NewRoom(26) /\ white_balance_mode_setter(v)
    \/ \E v \in Presets(0, 13) :
           HasClient /\ NewRoom(27) /\ exposure_compensation_setter(v)
    \/ HasClient /\ camera_state_setter

NewSpec == NewInit /\ [][NewNext]_vars

\* Most files of a directory listing, the entry of the parent directory
\* not counted.
MaxFiles == 3

\* The name of an image or video file of the camera.
Named(head, second, frame, tail) ==
    <<head, "2", "0", "1", "9", "0", "1", "0", "1", "_",
      "1", "2", "0", "0">> \o second \o <<"_">> \o frame \o tail

\* The names of a directory: frames of a burst, a shot of the second after
\* it, a copy of a frame, a video and a file of another kind.
FileNames ==
    {Named("Img_", <<"0", "0">>, <<"0", "0", "1">>, <<".jpg">>),
     Named("Img_", <<"0", "0">>, <<"0", "0", "2">>, <<".jpg">>),
     Named("Img_", <<"0", "0">>, <<"0", "0", "2">>, <<".jpg", ".bak">>),
     Named("Img_", <<"0", "1">>, <<"0", "0", "1">>, <<".jpg">>),
     Named("Vid_", <<"0", "0">>, <<"0", "0", "1">>, <<".mp4">>),
     Named("Vid_", <<"0", "0">>, <<"0", "0", "2">>, <<".mp4">>),
     <<"Thumbs.db">>}

\* The hrefs of a directory listing of n files: n different names, after
\* the parent directory if the file service lists it.
Listings(n) ==
    {head \o files :
        head \in {<<>>, <<<<"../">>>>},
        files \in {f \in [1..n -> FileNames] :
                      \A i, j \in DOMAIN f : i # j => f[i] # f[j]}}

\* What the file service can do with the request of a directory of n
\* files: not answer, answer with a page without anchors, or with a listing.
ListingAnswers(n) ==
    {Answer("ConnectionError", 0, <<>>), Answer("Timeout", 0, <<>>),
     Answer("", 404, <<>>)}
        \cup {Answer("", 200, hrefs) : hrefs \in Listings(n)}

\* No client and no container yet.  The module resourceio is as its own
\* imports leave it, or the program that uses it has bound the name re in
\* it as well.
ScanInit ==
    /\ camera_data = NoState
    /\ ops = <<>>
    /\ issued = <<>>
    /\ replies = <<>>
    /\ raised = NoError
    /\ last = [op |-> "new", attr |-> "", value |-> 0]
    /\ pre_data = NoState
    /\ pre_ops = <<>>
    /\ served = <<>>
    /\ bound_names \in {resourceio_imports, resourceio_imports \cup {"re"}}
    /\ container = NoContainer
    /\ kept = NoContainer
    /\ difference = NoContainer

file_io_uri == <<"http://192.168.100.1/DCIM/">>

\* The directory of the images.
images_uri == file_io_uri \o <<"Image/">>

\* A program scans a directory of the camera once.
ScanNext ==
    \E file_re \in {None, Some(IMG_FILE_RE), Some(VID_FILE_RE)} :
    \E group_by \in {None, Some(IMG_GROUP_BY)} :
    \E order_by \in {None, Some(IMG_ORDER_BY)} :
    \E n \in 0..MaxFiles :
    \E answer \in ListingAnswers(n) :
        /\ last.op = "new"
        /\ ResourceContainer_init(images_uri, file_re, group_by, order_by,
                                  answer)

ScanSpec == ScanInit /\ [][ScanNext]_vars

\* A name pattern of a program of its own, with fields of no fixed width:
\* Img_(?P<day>[0-9]+)_(?P<hour>[0-9]+)_(?P<frame>[0-9]+)\.jpg, grouped by
\* day and hour.
DayHourPattern ==
    <<Literal("Img_"), Number("day"), Literal("_"), Number("hour"),
      Literal("_"), Number("frame"), Literal(".jpg")>>

DayHourFields == <<"day", "hour">>

\* Names of files under that pattern: day 1 hour 23, day 12 hour 3.
DayHourNames ==
    {<<"Img_", "1", "_", "2", "3", "_", "1", ".jpg">>,
     <<"Img_", "1", "_", "2", "3", "_", "2", ".jpg">>,
     <<"Img_", "1", "2", "_", "3", "_", "1", ".jpg">>,
     <<"Img_", "2", "_", "3", "_", "1", ".jpg">>}

\* The name patterns, group-by fields and file names of the directories a
\* program scans: those of the camera, and its own.
Namings ==
    {<<IMG_FILE_RE, IMG_GROUP_BY,
       {Named("Img_", <<"0", "0">>, <<"0", "0", "1">>, <<".jpg">>),
        Named("Img_", <<"0", "0">>, <<"0", "0", "2">>, <<".jpg">>),
        Named("Img_", <<"0", "1">>, <<"0", "0", "1">>, <<".jpg">>),
        Named("Img_", <<"1", "0">>, <<"0", "0", "1">>, <<".jpg">>)}>>,
     <<DayHourPattern, DayHourFields, DayHourNames>>}

\* A program scans a directory once, with a name pattern and group-by
\* fields.
PatternNext ==
    \E naming \in Namings :
    \E order_by \in {None, Some(IMG_ORDER_BY)} :
    \E n \in 0..MaxFiles :
    \E files \in {f \in [1..n -> naming[3]] :
                     \A i, j \in DOMAIN f : i # j => f[i] # f[j]} :
        /\ last.op = "new"
        /\ ResourceContainer_init(images_uri, Some(naming[1]),
                                  Some(naming[2]), order_by,
                                  Answer("", 200, <<<<"../">>>> \o files))

PatternSpec == ScanInit /\ [][PatternNext]_vars

\* The names of the files of a directory around a capture: three frames of
\* a burst and a shot of the second after it.
ShotNames ==
    {Named("Img_", <<"0", "0">>, <<"0", "0", "1">>, <<".jpg">>),
     Named("Img_", <<"0", "0">>, <<"0", "0", "2">>, <<".jpg">>),
     Named("Img_", <<"0", "0">>, <<"0", "0", "3">>, <<".jpg">>),
     Named("Img_", <<"0", "1">>, <<"0", "0", "1">>, <<".jpg">>)}

\* The hrefs of a listing of n of these files, after the parent directory.
ShotListings(n) ==
    {<<<<"../">>>> \o files :
        files \in {f \in [1..n -> ShotNames] :
                      \A i, j \in DOMAIN f : i # j => f[i] # f[j]}}

\* What the file service can do with the request of such a directory.
ShotAnswers(n) ==
    {Answer("ConnectionError", 0, <<>>), Answer("Timeout", 0, <<>>),
     Answer("", 404, <<>>)}
        \cup {Answer("", 200, hrefs) : hrefs \in ShotListings(n)}

\* The directory of the images of a second camera, for a client that was
\* given its address as camera_ip.
other_images_uri == <<"http://192.168.100.2/DCIM/">> \o <<"Image/">>

\* The scan of the images of get_resources: by IMG_FILE_RE, grouped and
\* ordered.
ImagesScan(uri, answer) ==
    ResourceContainer_init(uri, Some(IMG_FILE_RE), Some(IMG_GROUP_BY),
                           Some(IMG_ORDER_BY), answer)

\* A program scans the images of a camera, keeps the container, scans the
\* images of that camera or of a second one, then subtracts the containers
\* it holds from one another and reads the later one.
DiffNext ==
    \/ \E n \in 0..MaxFiles : \E answer \in ShotAnswers(n) :
       \E uri \in {images_uri, other_images_uri} :
          /\ last.op \in {"new", "keep"}
          /\ ImagesScan(uri, answer)
    \/ Keep
    \/ \E self \in {"container", "kept"} : \E other \in {"container", "kept"} :
          Subtraction(self, other)
    \/ ResourceContainer_len
    \/ \E item \in 0..MaxFiles : ResourceContainer_getitem(item)

DiffSpec == ScanInit /\ [][DiffNext]_vars

\* The statuses other than 200 the control service answers with.
OtherStatus == {204, 404, 500}

\* What the control service can do with one request: not answer, answer
\* with a status other than 200, or answer 200 with a body that reports an
\* error code.
RequestAnswers ==
    {Answer("ConnectionError", 0, <<>>), Answer("Timeout", 0, <<>>)}
        \cup {Answer("", status, <<>>) : status \in OtherStatus}
        \cup {Answer("", 200, [ErrorCode |-> code]) : code \in ErrorCodes}

\* One call of __req_data ends: what it sent, what it returned and what it
\* raised.
Requested(op, command, answer) ==
    /\ \E done \in {req_data(command, <<>>, answer)} :
          /\ issued' = <<done.request>>
          /\ replies' = IF done.raised = NoError THEN <<done.json>> ELSE <<>>
          /\ raised' = done.raised
    /\ last' = [op |-> op, attr |-> "", value |-> command, answer |-> answer]
    /\ pre_data' = camera_data
    /\ pre_ops' = ops
    /\ UNCHANGED <<camera_data, ops>>
    /\ UNCHANGED file_vars

\* PyWunderCam.trigger: one request of the command 24.
trigger(answer) == Requested("trigger", 24, answer)

\* A client makes single control requests: it triggers the camera, or
\* reads one of the groups of the full read.
RequestNext ==
    \/ \E answer \in RequestAnswers : trigger(answer)
    \/ \E i \in 1..Len(read_commands) : \E answer \in RequestAnswers :
          Requested("read", read_commands[i], answer)

RequestSpec == Init /\ [][RequestNext]_vars

\* ---------------------------------------------------------------- transfer

\* The content types the file service declares for what it sends.
ContentTypes == {"image/jpeg", "video/mp4", "text/html"}

\* What the file service does with the request of a file: the exception of
\* the request if it got no answer, else the status, the content-type
\* header (None if the answer has none) and the content of the answer.
Response(exc, status_code, content_type, content) ==
    [exc |-> exc, status_code |-> status_code,
     content_type |-> content_type, content |-> content]

Responses ==
    {Response("ConnectionError", 0, None, <<>>),
     Response("Timeout", 0, None, <<>>)}
        \cup {Response("", status, Some(type), <<"bytes of", type>>) :
                 status \in {200} \cup OtherStatus, type \in ContentTypes}
        \cup {Response("", status, None, <<"bytes">>) :
                 status \in {200} \cup OtherStatus}

\* The tokens of a remote name that end a directory.
Directories ==
    {"http://192.168.100.1/DCIM/", "http://192.168.100.2/DCIM/", "Image/",
     "Video/"}

\* os.path.split(path)[1]: what follows the last separator of the path.
RECURSIVE Basename(_)
Basename(path) ==
    IF \E i \in 1..Len(path) : path[i] \in Directories
    THEN Basename(Tail(path))
    ELSE path

\* A call on a SingleResource ends: what the file service answered, what
\* the call returned (None if nothing), the local file it wrote (None if
\* none) and what it raised.
Transferred(op, resource, answer, returned, written, exc) ==
    /\ served' = <<answer>>
    /\ raised' = exc
    /\ last' = [op |-> op, attr |-> "", value |-> 0, resource |-> resource,
                returned |-> returned, written |-> written]
    /\ UNCHANGED <<camera_data, ops, issued, replies, pre_data, pre_ops,
                   bound_names, container, kept, difference>>

\* SingleResource.get: the image of the content of an answer 200 of the
\* content type image/jpeg.  The handler of the request catches a timeout
\* only; the header of an answer without content type cannot be read.
SingleResource_get(resource, answer) ==
    LET Ends(returned, exc) ==
            Transferred("get", resource, answer, returned, None, exc)
    IN
    IF answer.exc = "Timeout"
    THEN Ends(None, Error("Exception", <<"Request Timedout">>))
    ELSE IF answer.exc = "ConnectionError"
    THEN Ends(None, Error("ConnectionError", <<>>))
    ELSE IF answer.status_code # 200
    THEN Ends(None, Error("Exception", <<"Transfer went wrong">>))
    ELSE IF answer.content_type = None
    THEN Ends(None, Error("KeyError", <<"content-type">>))
    ELSE IF Value(answer.content_type) = "image/jpeg"
    THEN Ends(Some(<<"PIL.Image", answer.content>>), NoError)
    ELSE Ends(None, Error("Exception", <<"Cannot handle content type",
                                          Value(answer.content_type)>>))

\* SingleResource.save_to: the content of an answer 200 written to the
\* local file of the given name, or of the name of the remote file.
SingleResource_save_to(resource, filename, answer) ==
    LET local_filename ==
            IF filename # None
            THEN Value(filename)
            ELSE Basename(resource.full_remote_filename)
        Ends(written, exc) ==
            Transferred("save_to", resource, answer, None, written, exc)
    IN
    IF answer.exc = "Timeout"
    THEN Ends(None, Error("Exception", <<"Request Timedout">>))
    ELSE IF answer.exc = "ConnectionError"
    THEN Ends(None, Error("ConnectionError", <<>>))
    ELSE IF answer.status_code # 200
    THEN Ends(None, Error("Exception", <<"Transfer went wrong">>))
    ELSE Ends(Some([name |-> local_filename, content |-> answer.content]),
              NoError)

\* The single resources of the images of the two cameras.
Resources ==
    {SingleResource(uri \o name, None) :
        uri \in {images_uri, other_images_uri}, name \in ShotNames}

\* A program gets, or saves to a local file, a single resource.
TransferNext ==
    \E resource \in Resources : \E answer \in Responses :
        \/ SingleResource_get(resource, answer)
        \/ \E filename \in {None, Some(<<"shot.jpg">>)} :
              SingleResource_save_to(resource, filename, answer)

TransferSpec == ScanInit /\ [][TransferNext]_vars

\* -------------------------------------------------------------------- shots

\* PyWunderCam.get_resources, given the answers of the file service to the
\* requests of the two listings: the container of the images, then the one
\* of the videos, both built with the presets of the module whatever the
\* arguments are.  A scan that raises ends the call.
get_resources(img_file_re, vid_file_re, img_group_by, vid_group_by, img_order_by, images_answer, videos_answer) ==
    LET images == ResourceContainer_new(images_uri, Some(IMG_FILE_RE),
                      Some(IMG_GROUP_BY), Some(IMG_ORDER_BY), images_answer)
        videos == ResourceContainer_new(file_io_uri \o <<"Video/">>,
                      Some(VID_FILE_RE), Some(VID_GROUP_BY), None,
                      videos_answer)
    IN  IF images.raised # NoError
        THEN [images |-> NoContainer, videos |-> NoContainer,
              served |-> images.served, raised |-> images.raised]
        ELSE [images |-> images.container, videos |-> videos.container,
              served |-> images.served \o videos.served,
              raised |-> videos.raised]

\* The setters of CamState on a queue of pending operations: the queue
\* they leave and what they raise.
CamState_set(operations, attr, value) ==
    LET Set(command, param) ==
            [ops |-> OrderedDictSetItem(operations, command, param :> value),
             raised |-> NoError]
        Refused(msg) ==
            [ops |-> operations, raised |-> Error("ValueError", msg)]
    IN  CASE attr = "shoot_mode" ->
                 IF InRange(value, 0, 7)
                 THEN Set(21, "ModeType")
                 ELSE Refused(<<"Can't set that", "shoot mode">>)
          [] attr = "setting_mode" ->
                 IF value \in {0, 1}
                 THEN Set(29, "SettingMode")
                 ELSE Refused(<<"Can't set that", "setting mode">>)
          [] attr = "iso" ->
                 IF ~ InRange(value, 0, 5)
                 THEN Refused(<<"Invalid value", "{new_iso_value}",
                                "for parameter", "iso">>)
                 ELSE Set(25, "ISO")
          [] attr = "white_balance_mode" ->
                 IF ~ InRange(value, 0, 5)
                 THEN Refused(<<"Invalid value", "{new_white_balance_value}",
                                "for parameter", "white_balance_mode">>)
                 ELSE Set(26, "WhiteBalanceMode")
          [] attr = "exposure_compensation" ->
                 IF ~ InRange(value, 0, 14)
                 THEN Refused(<<"Invalid value",
                                "{new_exposure_compensation_value}",
                                "for parameter", "exposure_compensation">>)
                 ELSE Set(27, "ExposureCompensation")

\* The truth value of an optional number: None and 0 are false.
Truthy(argument) == argument # None /\ Value(argument) # 0

\* The assignments of _trigger_shot with the setting mode assigned after
\* the settings.
AssignmentsSettingsFirst(single_or_continuous, iso_arg, white_balance_arg, exposure_arg) ==
    <<<<"shoot_mode", IF single_or_continuous = 0 THEN 0 ELSE 3>>>>
    \o (IF Truthy(iso_arg) \/ Truthy(white_balance_arg)
           \/ Truthy(exposure_arg)
        THEN (IF Truthy(iso_arg)
              THEN <<<<"iso", Value(iso_arg)>>>> ELSE <<>>)
             \o (IF Truthy(exposure_arg)
                 THEN <<<<"exposure_compensation",
                          Value(exposure_arg)>>>> ELSE <<>>)
             \o (IF Truthy(white_balance_arg)
                 THEN <<<<"white_balance_mode",
                          Value(white_balance_arg)>>>> ELSE <<>>)
             \o <<<<"setting_mode", 1>>>>
        ELSE <<<<"setting_mode", 0>>>>)

\* The assignments of _trigger_shot to the attributes of the state, in
\* the order it makes them.
Assignments(single_or_continuous, iso_arg, white_balance_arg, exposure_arg) ==
    <<<<"shoot_mode", IF single_or_continuous = 0 THEN 0 ELSE 3>>>>
    \o (IF Truthy(iso_arg) \/ Truthy(white_balance_arg)
           \/ Truthy(exposure_arg)
        THEN <<<<"setting_mode", 1>>>>
             \o (IF Truthy(iso_arg)
                 THEN <<<<"iso", Value(iso_arg)>>>> ELSE <<>>)
             \o (IF Truthy(exposure_arg)
                 THEN <<<<"exposure_compensation",
                          Value(exposure_arg)>>>> ELSE <<>>)
             \o (IF Truthy(white_balance_arg)
                 THEN <<<<"white_balance_mode",
                          Value(white_balance_arg)>>>> ELSE <<>>)
        ELSE <<<<"setting_mode", 0>>>>)

\* The queue after the assignments from the i-th on, up to the first one
\* that raises.
RECURSIVE Assigned(_, _, _)
Assigned(assignments, i, done) ==
    IF i > Len(assignments) \/ done.raised # NoError
    THEN done
    ELSE Assigned(assignments, i + 1,
                  CamState_set(done.ops, assignments[i][1], assignments[i][2]))

\* A call of _trigger_shot so far: the steps it has taken, what it sent to
\* and got from the two services, the queue and the camera data it leaves,
\* the containers of the images of its two scans, and what it returns
\* and raises.
Run(steps, requests, jsons, files, operations, data, before, after, result, exc) ==
    [steps |-> steps, issued |-> requests, replies |-> jsons,
     served |-> files, ops |-> operations, camera_data |-> data,
     before |-> before, after |-> after, result |-> result, raised |-> exc]

\* _trigger_shot ends.
Shot(single_or_continuous, iso_arg, white_balance_arg, exposure_arg, run) ==
    /\ camera_data' = run.camera_data
    /\ ops' = run.ops
    /\ issued' = run.issued
    /\ replies' = run.replies
    /\ served' = run.served
    /\ raised' = run.raised
    /\ kept' = run.before
    /\ container' = run.after
    /\ difference' = run.result
    /\ last' = [op |-> "shot", attr |-> "", value |-> single_or_continuous,
                iso |-> iso_arg, white_balance_mode |-> white_balance_arg,
                exposure_compensation |-> exposure_arg,
                steps |-> run.steps]
    /\ pre_data' = camera_data
    /\ pre_ops' = ops
    /\ UNCHANGED bound_names

\* Most files of a listing of the images around a shot.
MaxShotFiles == 1

\* The answers of the file service to the two requests of get_resources:
\* a listing or a failure for the images, a directory without files or no
\* connection for the videos.
ShotScans ==
    {<<images, videos>> :
        images \in UNION {ShotAnswers(n) : n \in 0..MaxShotFiles},
        videos \in {Answer("ConnectionError", 0, <<>>)}
                      \cup {Answer("", 200, hrefs) : hrefs \in ShotListings(0)}}

\* The values a program passes for an optional setting of a shot whose
\* valid values are lo..hi: none, the first and the last.
Optional(lo, hi) == {None, Some(lo), Some(hi)}

\* PyWunderCamAuto._trigger_shot: the scan before the shot, the state
\* prepared and its attributes assigned, the state applied, the camera
\* triggered, the wait, the scan after the shot and the subtraction of the
\* containers of the images.  What raises ends the call.
trigger_shot(single_or_continuous, iso_arg, white_balance_arg, exposure_arg) ==
    LET Ends(run) == Shot(single_or_continuous, iso_arg, white_balance_arg,
                          exposure_arg, run)
        Scan(answers) ==
            get_resources(IMG_FILE_RE, VID_FILE_RE, IMG_GROUP_BY,
                          VID_GROUP_BY, IMG_ORDER_BY, answers[1], answers[2])
        scanned == <<"scan before">>
        queued == scanned \o <<"prepare", "queue">>
        applied == queued \o <<"commit">>
        triggered == applied \o <<"trigger">>
        rescanned == triggered \o <<"wait", "scan after">>
    IN
    \E first \in ShotScans :
    \E before_shot \in {Scan(first)} :
    IF before_shot.raised # NoError
    THEN Ends(Run(scanned, <<>>, <<>>, before_shot.served, ops, camera_data,
                  NoContainer, NoContainer, NoContainer, before_shot.raised))
    ELSE
    \E current_state \in
        {Assigned(Assignments(single_or_continuous, iso_arg,
                              white_balance_arg, exposure_arg),
                  1, [ops |-> <<>>, raised |-> NoError])} :
    IF current_state.raised # NoError
    THEN Ends(Run(queued, <<>>, <<>>, before_shot.served, current_state.ops,
                  camera_data, before_shot.images, NoContainer, NoContainer,
                  current_state.raised))
    ELSE
    \E n \in 0..Len(current_state.ops) :
    \E failure \in IF n < Len(current_state.ops)
                   THEN {<<f>> : f \in Failures} ELSE {<<>>} :
    \E done \in {RequestLoop(current_state.ops,
                             OkRun(current_state.ops, n, [i \in 1..n |-> 0])
                                 \o failure,
                             1, NotStarted)} :
    IF done.raised # NoError
    THEN Ends(Run(applied, done.issued, done.replies, before_shot.served,
                  current_state.ops, Updated(done), before_shot.images,
                  NoContainer, NoContainer, done.raised))
    ELSE
    \E answer \in RequestAnswers :
    \E fired \in {req_data(24, <<>>, answer)} :
    IF fired.raised # NoError
    THEN Ends(Run(triggered, Append(done.issued, fired.request), done.replies,
                  before_shot.served, current_state.ops, Updated(done),
                  before_shot.images, NoContainer, NoContainer, fired.raised))
    ELSE
    \E second \in ShotScans :
    \E after_shot \in {Scan(second)} :
    IF after_shot.raised # NoError
    THEN Ends(Run(rescanned, Append(done.issued, fired.request),
                  Append(done.replies, fired.json),
                  before_shot.served \o after_shot.served, current_state.ops,
                  Updated(done), before_shot.images, NoContainer, NoContainer,
                  after_shot.raised))
    ELSE Ends(Run(rescanned \o <<"subtract">>,
                  Append(done.issued, fired.request),
                  Append(done.replies, fired.json),
                  before_shot.served \o after_shot.served, current_state.ops,
                  Updated(done), before_shot.images, after_shot.images,
                  ResourceContainer_sub(after_shot.images, before_shot.images)
                      .new_resource_container,
                  NoError))

\* A call of get_resources ends: the container of the images, scanned
\* first, and the one of the videos, what the file service answered, what
\* the call raised, and the arguments of the call.
Listed2(done, arguments) ==
    /\ kept' = done.images
    /\ container' = done.videos
    /\ served' = done.served
    /\ raised' = done.raised
    /\ last' = [op |-> "get_resources", attr |-> "", value |-> 0,
                img_file_re |-> arguments[1], vid_file_re |-> arguments[2],
                img_group_by |-> arguments[3], vid_group_by |-> arguments[4],
                img_order_by |-> arguments[5]]
    /\ UNCHANGED <<camera_data, ops, issued, replies, pre_data, pre_ops,
                   bound_names, difference>>

\* Group-by fields and an order-by field other than the presets.
DayFields == <<"year", "month", "day">>

\* The arguments a program passes to get_resources: the presets, which
\* are the defaults, or values of its own.
ResourceArguments ==
    {IMG_FILE_RE} \X {VID_FILE_RE, IMG_FILE_RE}
        \X {IMG_GROUP_BY, DayFields} \X {VID_GROUP_BY, DayFields}
        \X {IMG_ORDER_BY, "second"}

\* The client after its construction, in a program that runs the module
\* resourceio as shipped or has bound the name re in it.
ShotInit ==
    /\ camera_data \in {CamState_init(data) : data \in InitialReads}
    /\ ops = <<>>
    /\ issued = <<>>
    /\ replies = <<>>
    /\ raised = NoError
    /\ last = [op |-> "init", attr |-> "", value |-> 0]
    /\ pre_data = camera_data
    /\ pre_ops = <<>>
    /\ served = <<>>
    /\ bound_names \in {resourceio_imports, resourceio_imports \cup {"re"}}
    /\ container = NoContainer
    /\ kept = NoContainer
    /\ difference = NoContainer

\* single_shot and continuous_shot, and get_resources: a program takes
\* one shot, or lists the resources of the camera.
ShotNext ==
    \/ \E single_or_continuous \in {0, 1} :
       \E iso_arg \in Optional(0, 4) \cup {Some(5)} :
       \E white_balance_arg \in Optional(0, 4) :
       \E exposure_arg \in Optional(0, 13) :
          /\ last.op = "init"
          /\ trigger_shot(single_or_continuous, iso_arg, white_balance_arg,
                          exposure_arg)
    \/ \E arguments \in ResourceArguments :
       \E n \in 0..MaxFiles :
       \E images \in ShotAnswers(n) :
       \E videos \in ShotAnswers(0) :
          /\ last.op = "init"
          /\ Listed2(get_resources(arguments[1], arguments[2], arguments[3],
                                   arguments[4], arguments[5], images, videos),
                     arguments)

ShotSpec == ShotInit /\ [][ShotNext]_vars

\* ------------------------------------------------------------------ claims

\* The read/write attributes as the specification declares them: the
\* command, the parameter of the command, the camera data key, the valid
\* values and the names an error message can call the attribute by.
Attribute(command, param, key, domain, names) ==
    [command |-> command, param |-> param, key |-> key, domain |-> domain,
     names |-> names]

Declared(attr) ==
    CASE attr = "shoot_mode" ->
           Attribute(21, "ModeType", "ShootMode", 0..6,
                     {"shoot_mode", "shoot mode"})
      [] attr = "setting_mode" ->
           Attribute(29, "SettingMode", "SettingMode", 0..1,
                     {"setting_mode", "setting mode"})
      [] attr = "iso" ->
           Attribute(25, "ISO", "ISO", 0..4, {"iso"})
      [] attr = "white_balance_mode" ->
           Attribute(26, "WhiteBalanceMode", "WhiteBalanceMode", 0..4,
                     {"white_balance_mode", "white balance mode"})
      [] attr = "exposure_compensation" ->
           Attribute(27, "ExposureCompensation", "ExposureCompensation", 0..13,
                     {"exposure_compensation", "exposure compensation"})

\* The last call was a set of a value inside / outside the declared domain.
SetValid == last.op = "set" /\ last.value \in Declared(last.attr).domain

SetInvalid == last.op = "set" /\ last.value \notin Declared(last.attr).domain

\* The positions of a command in a queue.
Positions(od, command) == {i \in 1..Len(od) : od[i][1] = command}

\* The pending operation that the last set call asked for.
Asked == <<Declared(last.attr).command,
           Declared(last.attr).param :> last.value>>

\* The request that applies a pending operation.
RequestFor(operation) == ("cmd" :> operation[1]) @@ operation[2]

\* The value a reader of an attribute gets.
Read(attr) ==
    CASE attr = "shoot_mode" -> shoot_mode
      [] attr = "setting_mode" -> setting_mode
      [] attr = "iso" -> iso
      [] attr = "white_balance_mode" -> white_balance_mode
      [] attr = "exposure_compensation" -> exposure_compensation

\* Replies merged in their order, a later one overwriting an earlier one.
MergedReplies(rs) ==
    LET keys == UNION {DOMAIN rs[i] : i \in 1..Len(rs)}
        Latest(k) == CHOOSE i \in 1..Len(rs) :
                        /\ k \in DOMAIN rs[i]
                        /\ \A j \in (i + 1)..Len(rs) : k \notin DOMAIN rs[j]
    IN  [k \in keys |-> Some(rs[Latest(k)][k])]

\* The last call was a commit in which a request failed.
CommitFailed == last.op = "commit" /\ raised # NoError

\* C1: when the request of the k-th pending operation fails during commit,
\* the camera data of the client holds the merged replies of operations
\* 1..k-1, which the camera has applied.
C1_PartialUpdateMerged ==
    CommitFailed =>
        \A k \in DOMAIN MergedReplies(replies) :
            camera_data[k] = MergedReplies(replies)[k]

\* C2: when the request of the k-th pending operation fails during commit,
\* the requests sent are exactly those of operations 1..k in the order of
\* the queue (none for an operation after k, none to undo operations
\* 1..k-1, whose replies were received), and the failure is raised.
C2_StopsAtFirstFailure ==
    (last.op = "commit" /\ Len(issued) > Len(replies)) =>
        /\ raised # NoError
        /\ Len(issued) = Len(replies) + 1
        /\ Len(issued) <= Len(pre_ops)
        /\ \A i \in 1..Len(issued) : issued[i] = RequestFor(pre_ops[i])

\* A commit failed at the first of two pending operations.
C2_Witness ==
    /\ CommitFailed
    /\ Len(pre_ops) = 2
    /\ Len(issued) = 1
    /\ replies = <<>>

\* C3: after a set of a value inside the domain of its attribute, the set
\* has succeeded and the pending set holds exactly one operation for the
\* command of the attribute, with the value just set.
C3_ValidSetQueuesOne ==
    SetValid =>
        /\ raised = NoError
        /\ Cardinality(Positions(ops, Asked[1])) = 1
        /\ \A i \in Positions(ops, Asked[1]) : ops[i] = Asked

\* A valid set of an attribute that was pending with another value.
C3_Witness ==
    /\ SetValid
    /\ \E i \in Positions(pre_ops, Asked[1]) : pre_ops[i] # Asked
    /\ \E i \in Positions(ops, Asked[1]) : ops[i] = Asked

\* C4: after a set of a value outside the domain of its attribute, the set
\* has failed and the pending set is the pending set of before the call.
C4_InvalidSetKeepsQueue ==
    SetInvalid =>
        /\ raised # NoError
        /\ ops = pre_ops

\* An invalid set of an attribute that is pending, with others.
C4_Witness ==
    /\ SetInvalid
    /\ raised # NoError
    /\ Len(pre_ops) >= 2
    /\ Positions(pre_ops, Asked[1]) # {}

\* C5: a set of a value outside the domain raises PyWunderCamValueError,
\* and the message names the attribute and the value.
C5_InvalidValueError ==
    SetInvalid =>
        /\ raised.type = "PyWunderCamValueError"
        /\ \E i \in 1..Len(raised.msg) :
               raised.msg[i] \in Declared(last.attr).names
        /\ \E i \in 1..Len(raised.msg) : raised.msg[i] = ToString(last.value)

\* C6: after prepare the pending set is empty, whatever it held before.
C6_PrepareEmpties ==
    last.op = "prepare" => ops = <<>>

\* A prepare that found two operations pending, after a commit.
C6_Witness ==
    /\ last.op = "prepare"
    /\ Len(pre_ops) = 2
    /\ camera_data # CamState_init(CHOOSE data \in InitialReads : TRUE)

\* C7: a successful set of an attribute whose command is pending leaves
\* the commands of the pending set where they were and changes the
\* operation of that command alone; of an attribute whose command is not
\* pending, it leaves the pending set as it was and adds the operation at
\* the end.
C7_SetKeepsPosition ==
    (last.op = "set" /\ raised = NoError) =>
        IF Positions(pre_ops, Asked[1]) # {}
        THEN /\ Len(ops) = Len(pre_ops)
             /\ \A i \in 1..Len(ops) :
                    ops[i] = IF pre_ops[i][1] = Asked[1] THEN Asked ELSE pre_ops[i]
        ELSE /\ Len(ops) = Len(pre_ops) + 1
             /\ \A i \in 1..Len(pre_ops) : ops[i] = pre_ops[i]
             /\ ops[Len(ops)] = Asked

\* A set that replaced, with another value, an operation that was not the
\* last of the pending set.
C7_Witness ==
    /\ last.op = "set"
    /\ raised = NoError
    /\ \E i \in Positions(pre_ops, Asked[1]) :
           /\ i < Len(pre_ops)
           /\ pre_ops[i] # Asked
           /\ ops[i] = Asked

\* C8: a commit of a non-empty pending set in which no request fails sends
\* exactly one request per pending operation, in the order of the pending
\* set, each with the command and the parameters of its operation.
C8_OneRequestPerOperation ==
    (last.op = "commit" /\ raised = NoError /\ Len(pre_ops) > 0) =>
        /\ Len(issued) = Len(pre_ops)
        /\ \A i \in 1..Len(pre_ops) : issued[i] = RequestFor(pre_ops[i])

\* A commit of two pending operations, both applied.
C8_Witness ==
    /\ last.op = "commit"
    /\ raised = NoError
    /\ Len(pre_ops) = 2
    /\ Len(replies) = 2

\* C9: a commit of an empty pending set sends no request and leaves the
\* camera data as it was.
C9_EmptyCommitNoOp ==
    (last.op = "commit" /\ pre_ops = <<>>) =>
        /\ issued = <<>>
        /\ camera_data = pre_data
        /\ raised = NoError

\* A commit of an empty pending set.
C9_Witness ==
    /\ last.op = "commit"
    /\ pre_ops = <<>>

\* C10: a set sends no request and leaves the camera data as it was: the
\* attribute still reads as the value last observed from the camera.
C10_SetIsLocal ==
    last.op = "set" =>
        /\ issued = <<>>
        /\ camera_data = pre_data
        /\ Read(last.attr) = pre_data[Declared(last.attr).key]

\* A successful set of a value that is not the value observed.
C10_Witness ==
    /\ last.op = "set"
    /\ raised = NoError
    /\ \E i \in Positions(ops, Asked[1]) : ops[i] = Asked
    /\ Read(last.attr) # Some(last.value)

\* C11: a commit that directly follows a commit which applied a non-empty
\* pending set (no set and no prepare between the two) sends no request.
C11_SecondCommitSilent ==
    [][(/\ last.op = "commit"
        /\ raised = NoError
        /\ pre_ops # <<>>
        /\ last'.op = "commit") => issued' = <<>>]_vars

\* C12: after a commit of a non-empty pending set in which every request
\* succeeded, every field of the camera data that a reply reported holds
\* the value of the last reply (in the order of the pending set) that
\* reported it, and every other field holds the value it had before.
C12_LastReplyWins ==
    (last.op = "commit" /\ raised = NoError /\ pre_ops # <<>>) =>
        \A merged \in {MergedReplies(replies)} :
            /\ DOMAIN camera_data = (DOMAIN pre_data) \cup (DOMAIN merged)
            /\ \A k \in DOMAIN camera_data :
                   camera_data[k] = IF k \in DOMAIN merged
                                    THEN merged[k]
                                    ELSE pre_data[k]

\* A commit of two operations, both applied, whose replies report the same
\* field (the error code) with different values and change the camera data.
C12_Witness ==
    /\ last.op = "commit"
    /\ raised = NoError
    /\ Len(replies) = 2
    /\ replies[1]["ErrorCode"] # replies[2]["ErrorCode"]
    /\ camera_data["ErrorCode"] = Some(replies[2]["ErrorCode"])
    /\ camera_data # pre_data

\* The construction ended, and had begun its full read (the first request
\* of a construction is the check of the control service).
FullReadBegun == last.op = "init" /\ Len(issued) >= 2

\* The requests and the replies of the full read of the construction.
ReadIssued == SubSeq(issued, 2, Len(issued))

ReadReplies == SubSeq(replies, 2, Len(replies))

\* The read groups in the order the specification gives.
ReadOrder == <<3, 37>> \o [i \in 1..14 |-> i + 3]

\* C13: when a request of the full read fails, the full read stops at that
\* request (every request before it was answered, none is sent after it),
\* the full read raises its error, the same whatever failed, and the client
\* gets no state: nothing of the replies merged so far is installed.
C13_FullReadAborts ==
    (FullReadBegun /\ Len(ReadIssued) > Len(ReadReplies)) =>
        /\ Len(ReadIssued) = Len(ReadReplies) + 1
        /\ \A i \in 1..Len(ReadIssued) : ReadIssued[i] = ("cmd" :> ReadOrder[i])
        /\ raised = Error("Exception", <<"Something Went wrong">>)
        /\ camera_data = NoState
        /\ ~ HasClient

\* A full read that failed after a reply had reported the settings.
C13_Witness ==
    /\ FullReadBegun
    /\ Len(ReadIssued) = Len(ReadReplies) + 1
    /\ Len(ReadReplies) < Len(ReadOrder)
    /\ \E i \in 1..Len(ReadReplies) : "ISO" \in DOMAIN ReadReplies[i]
    /\ raised # NoError

\* C14: a full read that succeeds has sent exactly one request per read
\* group, in the order 3, 37, 4, 5, ..., 17, and has built a state with
\* nothing pending in which every field a reply reported holds the value of
\* the last reply that reported it, and every other known field is None.
C14_FullReadMerges ==
    (last.op = "init" /\ raised = NoError) =>
        /\ ReadIssued = [i \in 1..Len(ReadOrder) |-> "cmd" :> ReadOrder[i]]
        /\ Len(ReadReplies) = Len(ReadOrder)
        /\ ops = <<>>
        /\ \A merged \in {MergedReplies(ReadReplies)} :
            /\ DOMAIN camera_data = camera_data_attributes \cup DOMAIN merged
            /\ \A k \in DOMAIN camera_data :
                   camera_data[k] = IF k \in DOMAIN merged THEN merged[k] ELSE None

\* A full read in which a reply before the last reported an error code
\* other than the last did, and a reply reported the settings.
C14_Witness ==
    /\ last.op = "init"
    /\ raised = NoError
    /\ Len(ReadReplies) = 16
    /\ \E i \in 1..15 : ReadReplies[i]["ErrorCode"] # ReadReplies[16]["ErrorCode"]
    /\ camera_data["ErrorCode"] = Some(ReadReplies[16]["ErrorCode"])
    /\ camera_data["ISO"] = Some(0)
    /\ camera_data["WifiSSID"] = None

\* The fields that a reply to the last call reported and the call merged.
Reported ==
    IF last.op = "init"
    THEN UNION {DOMAIN ReadReplies[i] : i \in 1..Len(ReadReplies)}
    ELSE IF last.op = "commit" /\ raised = NoError
    THEN UNION {DOMAIN replies[i] : i \in 1..Len(replies)}
    ELSE {}

\* C15: the camera data of a client has every known attribute key, and a
\* key holds None unless it held a value before the last call or a reply
\* to the last call reported it.
C15_AllKeysPresent ==
    HasClient =>
        /\ camera_data_attributes \subseteq DOMAIN camera_data
        /\ \A k \in camera_data_attributes :
               camera_data[k] # None =>
                   \/ k \in Reported
                   \/ pre_data # NoState /\ pre_data[k] # None

\* A commit on a client whose full read had not reported the ISO: the key
\* was None and holds the value of the reply, another key is still None.
C15_Witness ==
    /\ HasClient
    /\ last.op = "commit"
    /\ pre_data["ISO"] = None
    /\ camera_data["ISO"] = Some(4)
    /\ camera_data["WifiSSID"] = None

\* The last call was a scan, and it returned a container.
ScanBuilt == last.op = "scan" /\ container.built

\* The names the file service listed, without the first entry.
Listed ==
    IF served # <<>> /\ Len(served[1].json) > 1
    THEN SubSeq(served[1].json, 2, Len(served[1].json))
    ELSE <<>>

\* The single resources a resource is made of.
Members(r) == IF r.type = "SequenceResource" THEN r.seq ELSE <<r>>

\* A resource has the file of a listed name among its members.
Holds(r, name) ==
    \E i \in 1..Len(Members(r)) :
        Members(r)[i].full_remote_filename = images_uri \o name

\* The scan had a name pattern and group-by fields.
ScanGrouping ==
    ScanBuilt /\ container.file_re # None /\ container.group_by # None

\* The groups of a listed name under the pattern of the scan, None if the
\* name does not match.
Metadata(name) == Match(Value(container.file_re), name, 1, 1, <<>>)

\* The position in the listing of the member of a resource listed first.
FirstListed(r) ==
    CHOOSE i \in 1..Len(Listed) :
        /\ Holds(r, Listed[i])
        /\ \A j \in 1..(i - 1) : ~ Holds(r, Listed[j])

\* The position in the listing of a single resource.
ListedAt(m) ==
    CHOOSE i \in 1..Len(Listed) : m.full_remote_filename = images_uri \o Listed[i]

\* C16: in a scan with a name pattern and group-by fields, every listed
\* name that does not match the pattern is a SingleResource of the
\* container, without metadata.
C16_UnmatchedAlone ==
    ScanGrouping =>
        \A i \in 1..Len(Listed) :
            Metadata(Listed[i]) = None =>
                \E g \in 1..Len(container.resources) :
                    container.resources[g] =
                        SingleResource(images_uri \o Listed[i], None)

\* C17: in a scan with a name pattern and group-by fields, two listed
\* names that match the pattern with equal values of every group-by field
\* are members of one SequenceResource of the container.
C17_EqualFieldsOneSequence ==
    ScanGrouping =>
        \A i, j \in 1..Len(Listed) :
            (/\ i # j
             /\ Metadata(Listed[i]) # None
             /\ Metadata(Listed[j]) # None
             /\ \A f \in 1..Len(Value(container.group_by)) :
                    Value(Metadata(Listed[i]))[Value(container.group_by)[f]]
                      = Value(Metadata(Listed[j]))[Value(container.group_by)[f]])
            => \E g \in 1..Len(container.resources) :
                   /\ container.resources[g].type = "SequenceResource"
                   /\ Holds(container.resources[g], Listed[i])
                   /\ Holds(container.resources[g], Listed[j])

\* Two frames of one second in a sequence, between them in the listing a
\* shot of another second, which is a resource of its own.
C17_Witness ==
    /\ ScanGrouping
    /\ Len(Listed) = 3
    /\ Len(container.resources) = 2
    /\ container.resources[1].type = "SequenceResource"
    /\ Holds(container.resources[1], Listed[1])
    /\ Holds(container.resources[1], Listed[3])
    /\ Metadata(Listed[1]) # None
    /\ Metadata(Listed[3]) # None
    /\ Value(Metadata(Listed[1]))["frame"] # Value(Metadata(Listed[3]))["frame"]
    /\ Metadata(Listed[2]) # None
    /\ Holds(container.resources[2], Listed[2])

\* C18: a SequenceResource of a container has at least two members, a
\* SingleResource is one file, and every listed name (the first entry of
\* the listing left out) is held by exactly one resource of the
\* container, which holds nothing else.
C18_EveryEntryOnce ==
    ScanBuilt =>
        /\ \A g \in 1..Len(container.resources) :
               /\ container.resources[g].type \in
                      {"SingleResource", "SequenceResource"}
               /\ container.resources[g].type = "SequenceResource"
                      => Len(container.resources[g].seq) >= 2
               /\ \A m \in 1..Len(Members(container.resources[g])) :
                      \E i \in 1..Len(Listed) :
                          Members(container.resources[g])[m].full_remote_filename
                              = images_uri \o Listed[i]
        /\ \A i \in 1..Len(Listed) :
               /\ Cardinality({g \in 1..Len(container.resources) :
                                  Holds(container.resources[g], Listed[i])}) = 1
               /\ \A g \in 1..Len(container.resources) :
                      Cardinality({m \in 1..Len(Members(container.resources[g])) :
                          Members(container.resources[g])[m].full_remote_filename
                              = images_uri \o Listed[i]}) <= 1

\* A container of a sequence of two files and a single file.
C18_Witness ==
    /\ ScanBuilt
    /\ Len(Listed) = 3
    /\ \E g, h \in 1..Len(container.resources) :
           /\ container.resources[g].type = "SequenceResource"
           /\ Len(container.resources[g].seq) = 2
           /\ container.resources[h].type = "SingleResource"

\* C19: the resources of a container are in the order in which the listing
\* first names a member of each: resource g is before resource h exactly if
\* the member of g listed first is listed before the member of h listed
\* first.
C19_FirstEncounterOrder ==
    ScanBuilt =>
        \A g, h \in 1..Len(container.resources) :
            g < h <=> FirstListed(container.resources[g])
                          < FirstListed(container.resources[h])

\* A sequence that comes first although its second member is listed after
\* the only member of the resource that comes second.
C19_Witness ==
    /\ ScanBuilt
    /\ Len(container.resources) = 2
    /\ Len(Listed) = 3
    /\ container.resources[1].type = "SequenceResource"
    /\ Holds(container.resources[1], Listed[1])
    /\ Holds(container.resources[2], Listed[2])
    /\ Holds(container.resources[1], Listed[3])

\* The number a member of a sequence is ordered by.
OrderKey(m) == IntOf(Value(m.metadata)[Value(container.order_by)])

\* C20: the members of a SequenceResource built with an order-by field are
\* in ascending order of the number in that field, members with the same
\* number in the order of the listing; built without one, they are in the
\* order of the listing.
C20_MembersOrdered ==
    ScanBuilt =>
        \A g \in 1..Len(container.resources) :
            container.resources[g].type = "SequenceResource" =>
                \A a, b \in 1..Len(container.resources[g].seq) :
                    a < b =>
                        \A first \in {container.resources[g].seq[a]} :
                        \A second \in {container.resources[g].seq[b]} :
                            IF container.order_by # None
                            THEN \/ OrderKey(first) < OrderKey(second)
                                 \/ /\ OrderKey(first) = OrderKey(second)
                                    /\ ListedAt(first) < ListedAt(second)
                            ELSE ListedAt(first) < ListedAt(second)

\* A sequence of three frames built with an order-by field: the frame
\* listed last comes first, the two others have the same number and are in
\* the order of the listing.
C20_Witness ==
    /\ ScanBuilt
    /\ container.order_by # None
    /\ Len(container.resources) = 1
    /\ container.resources[1].type = "SequenceResource"
    /\ Len(container.resources[1].seq) = 3
    /\ ListedAt(container.resources[1].seq[1]) = 3
    /\ OrderKey(container.resources[1].seq[2])
           = OrderKey(container.resources[1].seq[3])
    /\ ListedAt(container.resources[1].seq[2]) = 1

\* The files of a container: the remote names of the members of its
\* resources.
FilesOf(c) ==
    UNION {{Members(c.resources[g])[i].full_remote_filename :
               i \in 1..Len(Members(c.resources[g]))} :
           g \in 1..Len(c.resources)}

\* The last call subtracted the container held under the name other from
\* the one held under the name self.
Subtracted(self, other) ==
    last.op = "sub" /\ last.self = self /\ last.other = other

\* The later scan found every file of the earlier one: a capture between
\* them has only added files to the directory.
OnlyAdded ==
    /\ kept.built
    /\ container.built
    /\ FilesOf(kept) \subseteq FilesOf(container)

\* C21: the container of the images after a capture minus the container
\* of the images before it holds no file the scan before the capture had
\* found, in a single resource or as a member of a sequence.
C21_DifferenceIsolatesNew ==
    (Subtracted("container", "kept") /\ OnlyAdded) =>
        FilesOf(difference) \cap FilesOf(kept) = {}

\* The resources of the two operands of the last subtraction, as they were
\* when it was called.
Minuend == last.operands[1].resources
Subtrahend == last.operands[2].resources

\* The fingerprints of a sequence of resources.
Fingerprints(resources) ==
    {resources[i].hash_value : i \in 1..Len(resources)}

\* The positions of the resources of the first operand whose fingerprint is
\* not among those of the second, and the k-th of them.
Absent ==
    {i \in 1..Len(Minuend) :
        Minuend[i].hash_value \notin Fingerprints(Subtrahend)}

AbsentAt(k) ==
    CHOOSE i \in Absent : Cardinality({j \in Absent : j < i}) = k - 1

\* C22: the result of a subtraction has, for every resource of the first
\* operand whose fingerprint is not among the fingerprints of the second,
\* that resource once, as it is in the first operand and in the order of
\* the first operand, and nothing else.
C22_DifferenceByFingerprint ==
    last.op = "sub" =>
        /\ Len(difference.resources) = Cardinality(Absent)
        /\ \A k \in 1..Len(difference.resources) :
               difference.resources[k] = Minuend[AbsentAt(k)]

\* A = {1, 2} minus B = {2, 3}: the result is 1 alone.
C22_Witness ==
    /\ last.op = "sub"
    /\ Len(Minuend) = 2
    /\ Len(Subtrahend) = 2
    /\ Absent = {1}
    /\ difference.resources = <<Minuend[1]>>
    /\ Subtrahend[1].hash_value \notin Fingerprints(Minuend)

C24_ContainersNotMutated ==
    [][/\ last'.op = "sub" =>
              /\ container' = container
              /\ kept' = kept
              /\ last'.copied
       /\ last'.op \in {"len", "getitem"} =>
              /\ container' = container
              /\ kept' = kept
              /\ difference' = difference
       /\ last'.op = "keep" => container' = container
       /\ (last'.op = "scan" /\ last.op = "keep") => kept' = kept]_vars

\* The later container minus the earlier one returned fewer resources than
\* the later container has, and both operands are what they were.
C24_Witness ==
    /\ Subtracted("container", "kept")
    /\ last.copied
    /\ Len(difference.resources) < Len(container.resources)
    /\ container = last.operands[1]
    /\ kept = last.operands[2]

\* The resources of the containers a program holds.
Held ==
    {container.resources[i] : i \in 1..Len(container.resources)}
        \cup {kept.resources[i] : i \in 1..Len(kept.resources)}

\* The files a resource consists of.
FilesIn(r) ==
    {Members(r)[i].full_remote_filename : i \in 1..Len(Members(r))}

\* C25: two resources of scans that have the same fingerprint input (the
\* remote name of a single resource, the joined names of the members of a
\* sequence) consist of the same files.
C25_FingerprintIdentifiesFiles ==
    \A r, q \in Held : r.hash_value = q.hash_value => FilesIn(r) = FilesIn(q)

\* C26: the container of the scan before a capture minus the container of
\* the scan after it has no resources.
C26_ReversedDifferenceEmpty ==
    (Subtracted("kept", "container") /\ OnlyAdded) =>
        difference.resources = <<>>

\* The construction of the client has run.
InitRun == last.op = "init"

\* The three checks of the construction: the control service answered the
\* read command 3 with a body that is not empty, the file service answered
\* the request of the path that does not exist with 404, and the body of
\* the control service reports the state 2 of the SD card.
ControlAnswered ==
    /\ Len(issued) >= 1
    /\ issued[1] = ("cmd" :> 3)
    /\ Len(replies) >= 1
    /\ DOMAIN replies[1] # {}

FileAnswered404 ==
    /\ Len(served) = 1
    /\ served[1].exc = ""
    /\ served[1].status_code = 404

CardUsable ==
    /\ Len(replies) >= 1
    /\ "SdcardplugFlag" \in DOMAIN replies[1]
    /\ replies[1]["SdcardplugFlag"] = 2

\* C27: after the construction the client has a state only if the three
\* checks held; if one of them did not, the construction has raised and
\* the client has no state.
C27_UsableOnlyIfChecked ==
    InitRun =>
        /\ camera_data # NoState =>
               ControlAnswered /\ FileAnswered404 /\ CardUsable
        /\ ~ (ControlAnswered /\ FileAnswered404 /\ CardUsable) =>
               raised # NoError /\ camera_data = NoState

\* Both services answered as they should and the SD card is in state 1:
\* the construction raised and left no state.
C27_Witness ==
    /\ InitRun
    /\ ControlAnswered
    /\ FileAnswered404
    /\ "SdcardplugFlag" \in DOMAIN replies[1]
    /\ replies[1]["SdcardplugFlag"] = 1
    /\ raised.type = "PyWunderCamSDCardUnusable"
    /\ camera_data = NoState

\* The error kinds a caller can tell apart: the exception classes of the
\* package.
ErrorKinds ==
    {"PyWunderCamTimeOutError", "PyWunderCamConnectionError",
     "PyWunderCamDataTransferError", "PyWunderCamContentTypeError",
     "PyWunderCamValueError", "PyWunderCamCameraNotFoundError",
     "PyWunderCamSDCardUnusable"}

\* C28: what a call on the client raises is of an error kind of its own,
\* never a generic exception.
C28_FailuresKeepTheirKind ==
    raised # NoError => raised.type \in ErrorKinds

\* C29: a control request returns data only if the control service
\* answered 200, and raises a PyWunderCamDataTransferError, returning
\* nothing, if it answered with any other status.
C29_OtherStatusDataTransferError ==
    last.op \in {"trigger", "read"} =>
        /\ raised = NoError =>
               last.answer.exc = "" /\ last.answer.status_code = 200
        /\ (last.answer.exc = "" /\ last.answer.status_code # 200) =>
               /\ raised.type = "PyWunderCamDataTransferError"
               /\ replies = <<>>

\* The error the scan raises for a request that failed: the one of the
\* handler of the request of the listing.
ScanError == Error("Exception", <<"Something went wrong">>)

\* C30: when the request of the listing fails, by a timeout or a
\* connection failure, the scan builds no container and raises its scan
\* error.
C30_FailedListingAbortsScan ==
    (/\ last.op = "scan"
     /\ served # <<>>
     /\ served[1].exc \in {"ConnectionError", "Timeout"}) =>
        /\ ~ container.built
        /\ raised = ScanError

\* C31: get returns only for an answer 200 of the content type image/jpeg
\* and raises PyWunderCamContentTypeError for an answer 200 of any other
\* content type; save_to writes the content of an answer 200 whatever its
\* content type.
C31_GetJpegOnly ==
    /\ last.op = "get" =>
          /\ raised = NoError =>
                /\ served[1].exc = ""
                /\ served[1].status_code = 200
                /\ served[1].content_type = Some("image/jpeg")
          /\ (/\ served[1].exc = ""
              /\ served[1].status_code = 200
              /\ served[1].content_type # None
              /\ served[1].content_type # Some("image/jpeg")) =>
                raised.type = "PyWunderCamContentTypeError"
    /\ (/\ last.op = "save_to"
        /\ served[1].exc = ""
        /\ served[1].status_code = 200) =>
          raised = NoError /\ last.written # None

\* A shot whose assignments to the state were all made: the call went on
\* to apply the state.
ShotQueued == last.op = "shot" /\ Len(last.steps) >= 4

\* The queue holds the operation of a command with a value of its
\* parameter.
Pending(command, param, value) ==
    /\ HasKey(ops, command)
    /\ ops[IndexOf(ops, command)][2] = (param :> value)

\* C32: a shot without iso, white balance mode and exposure compensation
\* queues the automatic setting mode 0; a shot with any of them, whatever
\* its value, queues the manual setting mode 1 and an operation for each
\* one given, with its value.
C32_ManualWhenAnyGiven ==
    ShotQueued =>
        IF /\ last.iso = None
           /\ last.white_balance_mode = None
           /\ last.exposure_compensation = None
        THEN Pending(29, "SettingMode", 0)
        ELSE /\ Pending(29, "SettingMode", 1)
             /\ last.iso # None => Pending(25, "ISO", Value(last.iso))
             /\ last.white_balance_mode # None =>
                    Pending(26, "WhiteBalanceMode",
                            Value(last.white_balance_mode))
             /\ last.exposure_compensation # None =>
                    Pending(27, "ExposureCompensation",
                            Value(last.exposure_compensation))

\* The container a scan of a directory with the arguments of the caller
\* builds from an answer of the file service.
Expected(uri, file_re, group_by, order_by, answer) ==
    ResourceContainer_new(uri, Some(file_re), Some(group_by), order_by,
                          answer).container

\* C33: the containers get_resources returns are those of scans with the
\* name patterns, the group-by fields and the order-by field of its
\* arguments.
C33_ResourcesByArguments ==
    (last.op = "get_resources" /\ raised = NoError) =>
        /\ kept = Expected(images_uri, last.img_file_re, last.img_group_by,
                           Some(last.img_order_by), served[1])
        /\ container = Expected(file_io_uri \o <<"Video/">>, last.vid_file_re,
                                last.vid_group_by, None, served[2])

\* The attributes of the state that can be written.
Writable ==
    {"shoot_mode", "setting_mode", "iso", "white_balance_mode",
     "exposure_compensation"}

\* A pending operation is the write of one declared attribute: its
\* command, its one parameter, and a value of its domain.
WellFormed(operation) ==
    \E attr \in Writable :
        /\ operation[1] = Declared(attr).command
        /\ DOMAIN operation[2] = {Declared(attr).param}
        /\ operation[2][Declared(attr).param] \in Declared(attr).domain

\* C34: whatever was prepared, set and committed, the pending operations
\* have at most one operation per command, only the write commands 21, 25,
\* 26, 27 and 29, and every pending value is in the domain of its
\* attribute.
C34_PendingWellFormed ==
    \A i \in 1..Len(ops) :
        /\ Positions(ops, ops[i][1]) = {i}
        /\ ops[i][1] \in {21, 25, 26, 27, 29}
        /\ WellFormed(ops[i])

\* An invalid set after a commit to which the camera reported an error
\* code, with two operations pending.
C34_Witness ==
    /\ SetInvalid
    /\ Len(ops) = 2
    /\ camera_data["ErrorCode"] = Some(1)

\* The number of times a resource of the container holds the file of a
\* name.
TimesHeld(name) ==
    LET RECURSIVE Count(_)
        Count(g) ==
            IF g > Len(container.resources)
            THEN 0
            ELSE Cardinality(
                     {m \in 1..Len(Members(container.resources[g])) :
                         Members(container.resources[g])[m].full_remote_filename
                             = images_uri \o name})
                 + Count(g + 1)
    IN  Count(1)

\* The number of files the resources of the container hold.
FilesHeld ==
    LET RECURSIVE Count(_)
        Count(g) ==
            IF g > Len(container.resources)
            THEN 0
            ELSE Len(Members(container.resources[g])) + Count(g + 1)
    IN  Count(1)

\* C35: a scan leaves out the first entry of the listing, whatever it is,
\* and keeps every later one: the resources of the container hold the
\* files of entries 2..n of the listing, each once, and no other file.
C35_FirstEntryDropped ==
    (ScanBuilt /\ Len(served[1].json) > 0) =>
        /\ FilesHeld = Len(served[1].json) - 1
        /\ \A i \in 2..Len(served[1].json) :
               TimesHeld(served[1].json[i]) = 1
        /\ TimesHeld(served[1].json[1]) = 0

\* A listing that begins with the name of an image, which the container
\* does not hold, while it holds the two names after it.
C35_Witness ==
    /\ ScanBuilt
    /\ Len(served[1].json) = 3
    /\ served[1].json[1] # <<"../">>
    /\ Match(IMG_FILE_RE, served[1].json[1], 1, 1, <<>>) # None
    /\ TimesHeld(served[1].json[1]) = 0
    /\ FilesHeld = 2

\* C36: the state the client returns is its own state object each time, so
\* when it is requested again while operations queued through it are not
\* committed, they are gone, and a commit after that requests nothing and
\* leaves the camera data as it is.
C36_SecondViewDiscardsPending ==
    [][(last.op = "prepare" /\ pre_ops # <<>> /\ last'.op = "commit")
          => (/\ ops = <<>>
              /\ issued' = <<>>
              /\ replies' = <<>>
              /\ raised' = NoError
              /\ camera_data' = camera_data)]_vars

\* The state requested again with two operations pending, the shoot mode
\* among them, that were never committed.
C36_Witness ==
    /\ last.op = "prepare"
    /\ Len(pre_ops) = 2
    /\ HasKey(pre_ops, 21)
    /\ shoot_mode = Some(0)
    /\ ops = <<>>

\* The steps of a shot that nothing interrupts.
ShotSteps ==
    <<"scan before", "prepare", "queue", "commit", "trigger", "wait",
      "scan after", "subtract">>

\* The commands of the requests sent to the control service, in their
\* order.
Commands == [i \in 1..Len(issued) |-> issued[i]["cmd"]]

\* The step a shot ended in.
LastStep == last.steps[Len(last.steps)]

\* C37: a shot takes its steps in the order scan, prepare, queue, commit,
\* trigger, wait, scan, subtract, as far as it gets; the commit requests
\* the shoot mode (21) first and the setting mode (29) before the ISO (25),
\* the exposure compensation (27) and the white balance (26), the trigger
\* (24) comes after all of them; a shot that raises in the commit or in
\* the trigger makes no second scan and returns nothing, and a shot that
\* raises nowhere returns the images after it minus the images before it.
C37_ShotOrder ==
    last.op = "shot" =>
        /\ last.steps = SubSeq(ShotSteps, 1, Len(last.steps))
        /\ Len(Commands) > 0 => Commands[1] = 21
        /\ \A i \in 1..Len(Commands) :
               /\ Commands[i] \in {25, 26, 27}
                      => \E j \in 1..(i - 1) : Commands[j] = 29
               /\ Commands[i] = 24
                      => /\ i = Len(Commands)
                         /\ i = Len(ops) + 1
                         /\ \A j \in 1..Len(ops) : Commands[j] = ops[j][1]
        /\ (raised # NoError /\ LastStep \in {"commit", "trigger"})
               => /\ Len(served) = 2
                  /\ container = NoContainer
                  /\ difference = NoContainer
        /\ LastStep = "trigger" => Commands[Len(Commands)] = 24
        /\ raised = NoError
               => /\ last.steps = ShotSteps
                  /\ Len(served) = 4
                  /\ Commands[Len(Commands)] = 24
                  /\ difference =
                         ResourceContainer_sub(container, kept)
                             .new_resource_container

\* A manual shot with the three settings that returns the one image that
\* was not there before it.
C37_Witness ==
    /\ last.op = "shot"
    /\ raised = NoError
    /\ Commands = <<21, 29, 25, 27, 26, 24>>
    /\ Len(kept.resources) = 0
    /\ Len(difference.resources) = 1

\* Two listed names match the pattern of the scan with the same value of
\* every group-by field.
SameFields(a, b) ==
    /\ Metadata(a) # None
    /\ Metadata(b) # None
    /\ \A f \in 1..Len(Value(container.group_by)) :
           Value(Metadata(a))[Value(container.group_by)[f]]
               = Value(Metadata(b))[Value(container.group_by)[f]]

\* C38: two listed names that match the pattern are in one resource of the
\* container only if they have the same value in every group-by field,
\* whatever the pattern.
C38_OneGroupOnlyIfEqualFields ==
    ScanGrouping =>
        \A i, j \in 1..Len(Listed) :
            (/\ Metadata(Listed[i]) # None
             /\ Metadata(Listed[j]) # None
             /\ \E g \in 1..Len(container.resources) :
                    /\ Holds(container.resources[g], Listed[i])
                    /\ Holds(container.resources[g], Listed[j]))
            => SameFields(Listed[i], Listed[j])

\* C39: every read accessor of the state reads a known attribute key, and
\* on a state created empty or with known keys it returns a value or None
\* and does not fail.
C39_AccessorsReadKnownKeys ==
    last.op = "get" =>
        /\ accessor_keys[last.attr] \in camera_data_attributes
        /\ raised = NoError

\* The file names of the members of a sequence, joined in the order of the
\* members.
RECURSIVE MemberNames(_)
MemberNames(seq) ==
    IF seq = <<>>
    THEN <<>>
    ELSE Listed[ListedAt(Head(seq))] \o MemberNames(Tail(seq))

\* The file names of the members of a resource, joined in the order of the
\* listing, from entry i on.
RECURSIVE EncounterNames(_, _)
EncounterNames(r, i) ==
    IF i > Len(Listed)
    THEN <<>>
    ELSE (IF Holds(r, Listed[i]) THEN Listed[i] ELSE <<>>)
             \o EncounterNames(r, i + 1)

\* The sequences of the container of the last scan.
Sequences ==
    {g \in 1..Len(container.resources) :
        container.resources[g].type = "SequenceResource"}

\* C40 as stated: the hash value of a SequenceResource is that of the file
\* names of its members joined in the order of the listing, also when the
\* scan has an order-by field.
C40_FingerprintInEncounterOrder ==
    ScanBuilt =>
        \A g \in Sequences :
            container.resources[g].hash_value
                = EncounterNames(container.resources[g], 1)

\* C40, amended: the hash value of a SequenceResource is that of the file
\* names of its members joined in the order of the members, which with an
\* order-by field is the ascending order of that field and without one the
\* order of the listing.
C40_FingerprintInMemberOrder ==
    ScanBuilt =>
        \A g \in Sequences :
            /\ container.resources[g].hash_value
                   = MemberNames(container.resources[g].seq)
            /\ \A a, b \in 1..Len(container.resources[g].seq) :
                   a < b =>
                       IF container.order_by # None
                       THEN OrderKey(container.resources[g].seq[a])
                                <= OrderKey(container.resources[g].seq[b])
                       ELSE ListedAt(container.resources[g].seq[a])
                                < ListedAt(container.resources[g].seq[b])

\* A burst of two frames listed with the second frame first and scanned
\* with an order-by field: the hash value begins with the name of the first
\* frame, which is listed last.
C40_Witness ==
    /\ ScanBuilt
    /\ container.order_by # None
    /\ Sequences = {1}
    /\ Len(container.resources[1].seq) = 2
    /\ ListedAt(container.resources[1].seq[1]) = 2
    /\ OrderKey(container.resources[1].seq[1])
           < OrderKey(container.resources[1].seq[2])
    /\ container.resources[1].hash_value = Listed[2] \o Listed[1]

====
